---- MODULE Spec2Model ----
(***************************************************************************)
(* Model of the column shaper (api_utils.get_shaped_dataframe) and of the  *)
(* split-table codec (DataFrame.to_dict('split') in the descriptive        *)
(* handlers, display_df_from_api_split_response in the dashboards) of the  *)
(* Data-Analysis-Dashboard repository.                                     *)
(*                                                                         *)
(* A DataFrame is a record                                                 *)
(*   columns : sequence of column names                                    *)
(*   index   : sequence of row labels, a label being the sequence of its   *)
(*             level components (length 1 for a single-level index)        *)
(*   names   : sequence of index level names, one per level                *)
(*   data    : sequence of rows, a row being a sequence of cells           *)
(* DataFrame objects live in a heap (a sequence of frames); an object is   *)
(* its position in the heap, so that "a new object" and "the same object"  *)
(* are different things.                                                   *)
(***************************************************************************)
EXTENDS Integers, Sequences, FiniteSets, TLC

\* ---------------------------------------------------------------- bounds
MaxCols == 2
MaxRows == 1
MaxListLen == 2
MaxLevels == 2
MaxWireRows == 2
MaxServed == 2
MaxFilterRows == 2
MaxPlots == 3
MaxGridPlots == 20
MaxCalls == 3

\* ---------------------------------------------------------------- values
\* Column names a request or a table can use.
ColNames == {"a", "b", "c"}

\* A cell is a tagged scalar: a Python int, a Python str, a float (FloatV(n)
\* is n.0; Float2(n, f) is n.f for a string f of one or two decimals), NaN
\* or None.
IntV(n) == [t |-> "int", i |-> n, s |-> ""]
StrV(x) == [t |-> "str", i |-> 0, s |-> x]
FloatV(n) == [t |-> "float", i |-> n, s |-> ""]
Float2(n, f) == [t |-> "float", i |-> n, s |-> f]
NaNV == [t |-> "nan", i |-> 0, s |-> ""]
NoneV == [t |-> "none", i |-> 0, s |-> ""]
Cells == {IntV(1), StrV("E")}

\* Python's None for an index name.
NoName == "<None>"

\* Optional[List[str]]: None, or a list.
None == [some |-> FALSE, v |-> <<>>]
Some(l) == [some |-> TRUE, v |-> l]

\* A str x where a list of names is expected is Some(<<"<str>", x>>), kept
\* apart from the lists by a first entry no list has.
IsStrNames(n) == n.some /\ Len(n.v) = 2 /\ n.v[1] = "<str>"

\* ---------------------------------------------------------------- helpers
SeqsUpTo(S, n) == UNION {[1..k -> S] : k \in 0..n}
IsUnique(s) == \A i, j \in 1..Len(s) : s[i] = s[j] => i = j
InSeq(x, s) == \E i \in 1..Len(s) : s[i] = x

\* pd.RangeIndex(n): labels 0..n-1, one unnamed level.
RangeIndex(n) == [i \in 1..n |-> <<IntV(i - 1)>>]

\* ---------------------------------------------------------------- pandas
\* Positions of label k in an axis, in axis order (Index.get_indexer_non_unique).
Positions(cols, k) == SelectSeq([i \in 1..Len(cols) |-> i], LAMBDA i : cols[i] = k)

RECURSIVE Indexer(_, _)
Indexer(cols, keys) ==
    IF keys = <<>> THEN <<>>
    ELSE Positions(cols, Head(keys)) \o Indexer(cols, Tail(keys))

\* DataFrame.take along the columns axis.
TakeCols(df, idx) ==
    [df EXCEPT !.columns = [j \in 1..Len(idx) |-> df.columns[idx[j]]],
               !.data = [r \in 1..Len(df.data) |->
                            [j \in 1..Len(idx) |-> df.data[r][idx[j]]]],
               !.dtypes = {p \in @ : \E j \in 1..Len(idx) : df.columns[idx[j]] = p[1]}]

\* F of the value of x, x being evaluated once.
Bind(x, F(_)) == CHOOSE y \in {F(v) : v \in {x}} : TRUE

\* df[name] = cells on a table with unique column names: the column name is
\* overwritten where it is, or added as the last column.
SetColumn(df, name, cells) ==
    IF InSeq(name, df.columns)
    THEN [df EXCEPT !.data = [r \in 1..Len(df.data) |->
                                 [j \in 1..Len(df.columns) |->
                                     IF df.columns[j] = name THEN cells[r] ELSE df.data[r][j]]],
                    !.dtypes = {p \in @ : p[1] # name}]
    ELSE [df EXCEPT !.columns = Append(df.columns, name),
                    !.data = [r \in 1..Len(df.data) |-> Append(df.data[r], cells[r])]]

\* The dtype pandas infers for a column from its cells: object for a column
\* without cells, with a cell that is neither a number nor missing, or with
\* None cells only; int64 for ints; float64 for numbers with a float or a
\* missing cell among them.
InferredDtype(col) ==
    IF \/ \A r \in 1..Len(col) : col[r].t = "none"
       \/ \E r \in 1..Len(col) : col[r].t \notin {"int", "float", "nan", "none"}
    THEN "object"
    ELSE IF \A r \in 1..Len(col) : col[r].t = "int" THEN "int64"
    ELSE "float64"

\* The dtype of column j of df.  A table records in dtypes, as pairs
\* <<name, dtype>>, the dtypes its cells do not tell: of an object column
\* whose cells are numbers, of a numeric column without rows.
Dtype(df, j) ==
    IF \E p \in df.dtypes : p[1] = df.columns[j]
    THEN (CHOOSE p \in df.dtypes : p[1] = df.columns[j])[2]
    ELSE InferredDtype([r \in 1..Len(df.data) |-> df.data[r][j]])

\* df[name] = a column of the given dtype and cells.
SetTypedColumn(df, name, dtype, cells) ==
    LET set == SetColumn(df, name, cells)
    IN  IF InferredDtype(cells) = dtype THEN set
        ELSE [set EXCEPT !.dtypes = @ \cup {<<name, dtype>>}]

\* The result of a pandas call: a frame, or an exception.
Ok(df) == [ok |-> TRUE, df |-> df]
Raise == [ok |-> FALSE, df |-> [columns |-> <<>>, index |-> <<>>, names |-> <<NoName>>, data |-> <<>>, dtypes |-> {}]]

\* df[keys] with a list of keys: KeyError if a key is not a column; otherwise
\* the columns the keys select, in the order of the keys, every key
\* selecting all the columns that carry its name.
GetItemCols(df, keys) ==
    IF \E i \in 1..Len(keys) : ~InSeq(keys[i], df.columns) THEN Raise
    ELSE Ok(TakeCols(df, Indexer(df.columns, keys)))

\* A variant of DropCols that drops the first label only.
DropCols_FirstOnly(df, labels) ==
    IF \E i \in 1..Len(labels) : ~InSeq(labels[i], df.columns) THEN Raise
    ELSE Ok(TakeCols(df, SelectSeq([i \in 1..Len(df.columns) |-> i],
                                   LAMBDA i : labels = <<>> \/ df.columns[i] # Head(labels))))

\* df.drop(columns=labels): KeyError if a label is not a column; otherwise
\* the columns whose name is not among the labels, in table order.
DropCols(df, labels) ==
    IF \E i \in 1..Len(labels) : ~InSeq(labels[i], df.columns) THEN Raise
    ELSE Ok(TakeCols(df, SelectSeq([i \in 1..Len(df.columns) |-> i],
                                   LAMBDA i : ~InSeq(df.columns[i], labels))))

\* pd.DataFrame(columns=cols): no rows, the declared columns.
EmptyFrame(cols) == [columns |-> cols, index |-> <<>>, names |-> <<NoName>>, data |-> <<>>, dtypes |-> {}]

\* ---------------------------------------------------------------- api_utils.py
\* The outcome of a call: the heap after it, the object returned (0 if the
\* call raised) and whether it raised.
Returned(h, id) == [heap |-> h, ret |-> id, raised |-> FALSE]
Raised(h) == [heap |-> h, ret |-> 0, raised |-> TRUE]

\* base_df.copy(): a new object with the same contents.
CopyFrame(h, id) == Append(h, h[id])

\* A variant of ValidCols that does not filter the requested names.
ValidCols_Unfiltered(cols, df) == cols

\* [col for col in cols if col in current_df.columns]
ValidCols(cols, df) == SelectSeq(cols, LAMBDA c : InSeq(c, df.columns))

\* A variant of IncludeBranch without the early return of the empty frame.
IncludeBranch_FallThrough(h, cur, include_columns) ==
    LET valid_include_cols == ValidCols(include_columns, h[cur])
    IN  IF valid_include_cols = <<>>
        THEN Returned(h, cur)
        ELSE LET r == GetItemCols(h[cur], valid_include_cols)
             IN  IF r.ok THEN Returned(Append(h, r.df), Len(h) + 1) ELSE Raised(h)

\* The body of "if include_columns is not None:", current_df being object cur.
IncludeBranch(h, cur, include_columns) ==
    LET valid_include_cols == ValidCols(include_columns, h[cur])
    IN  IF valid_include_cols = <<>>
        THEN IF include_columns # <<>>
             THEN Returned(Append(h, EmptyFrame(include_columns)), Len(h) + 1)
             ELSE Returned(h, cur)
        ELSE LET r == GetItemCols(h[cur], valid_include_cols)
             IN  IF r.ok THEN Returned(Append(h, r.df), Len(h) + 1) ELSE Raised(h)

\* A variant of ExcludeBranch that answers an unmatched exclude list the way
\* the include branch answers an unmatched include list.
ExcludeBranch_EmptyOnNoMatch(h, cur, exclude_columns) ==
    LET valid_exclude_cols == ValidCols(exclude_columns, h[cur])
    IN  IF valid_exclude_cols # <<>>
        THEN LET r == DropCols(h[cur], valid_exclude_cols)
             IN  IF r.ok THEN Returned(Append(h, r.df), Len(h) + 1) ELSE Raised(h)
        ELSE IF exclude_columns # <<>>
             THEN Returned(Append(h, EmptyFrame(exclude_columns)), Len(h) + 1)
             ELSE Returned(h, cur)

\* The body of "elif exclude_columns is not None:".
ExcludeBranch(h, cur, exclude_columns) ==
    LET valid_exclude_cols == ValidCols(exclude_columns, h[cur])
    IN  IF valid_exclude_cols # <<>>
        THEN LET r == DropCols(h[cur], valid_exclude_cols)
             IN  IF r.ok THEN Returned(Append(h, r.df), Len(h) + 1) ELSE Raised(h)
        ELSE Returned(h, cur)

\* A variant of get_shaped_dataframe with "if" in place of "elif": the exclude
\* list is applied to what the include list left.
get_shaped_dataframe_IfExclude(h, base_df, include_columns, exclude_columns) ==
    LET h1 == CopyFrame(h, base_df)
        current_df == Len(h1)
        r1 == IF include_columns.some THEN IncludeBranch(h1, current_df, include_columns.v)
              ELSE Returned(h1, current_df)
    IN  IF r1.raised \/ ~exclude_columns.some THEN r1
        ELSE ExcludeBranch(r1.heap, r1.ret, exclude_columns.v)

\* A variant of get_shaped_dataframe that works on base_df itself.
get_shaped_dataframe_NoCopy(h, base_df, include_columns, exclude_columns) ==
    IF include_columns.some THEN IncludeBranch(h, base_df, include_columns.v)
    ELSE IF exclude_columns.some THEN ExcludeBranch(h, base_df, exclude_columns.v)
    ELSE Returned(h, base_df)

get_shaped_dataframe(h, base_df, include_columns, exclude_columns) ==
    LET h1 == CopyFrame(h, base_df)
        current_df == Len(h1)
    IN  IF include_columns.some THEN IncludeBranch(h1, current_df, include_columns.v)
        ELSE IF exclude_columns.some THEN ExcludeBranch(h1, current_df, exclude_columns.v)
        ELSE Returned(h1, current_df)

\* ---------------------------------------------------------------- split form
\* A JSON value of the "index" array: a scalar, or an array of scalars.
JScalar(c) == [list |-> FALSE, v |-> <<c>>]
JList(l) == [list |-> TRUE, v |-> l]

\* DataFrame.to_dict("split"): the labels of a single-level index are
\* scalars, the labels of a MultiIndex are tuples, which JSON carries as
\* arrays; the level names are not part of the form.
\* A JSON object is complete if it has entries and none of "index",
\* "columns" and "data" is null: incomplete is "" for a complete object,
\* "{}" for the object without entries, or the key whose value is null.
to_dict_split(df) ==
    [index |-> [r \in 1..Len(df.index) |->
                    IF Len(df.names) > 1 THEN JList(df.index[r]) ELSE JScalar(df.index[r][1])],
     columns |-> df.columns,
     data |-> df.data,
     incomplete |-> ""]

\* The body of the response for DataFrameSplitResponse(**table_dict): the
\* split form as JSON, in which a NaN, of the index or of the data, is null.
ToJson(split) ==
    LET null(c) == IF c.t = "nan" THEN NoneV ELSE c
    IN  [split EXCEPT
            !.index = [i \in 1..Len(@) |-> [@[i] EXCEPT !.v = [k \in 1..Len(@) |-> null(@[k])]]],
            !.data = [r \in 1..Len(@) |-> [j \in 1..Len(@[r]) |-> null(@[r][j])]]]

\* ---------------------------------------------------------------- str()
Digit(d) == CASE d = 0 -> "0" [] d = 1 -> "1" [] d = 2 -> "2" [] d = 3 -> "3" [] d = 4 -> "4"
              [] d = 5 -> "5" [] d = 6 -> "6" [] d = 7 -> "7" [] d = 8 -> "8" [] d = 9 -> "9"

RECURSIVE IntToStr(_)
IntToStr(n) == IF n < 10 THEN Digit(n) ELSE IntToStr(n \div 10) \o Digit(n % 10)

\* Series.astype(str) on one cell.
AsStr(c) ==
    CASE c.t = "int" -> StrV(IntToStr(c.i))
      [] c.t = "float" -> StrV(IntToStr(c.i) \o "." \o (IF c.s = "" THEN "0" ELSE c.s))
      [] c.t = "nan" -> StrV("nan")
      [] c.t = "none" -> StrV("None")
      [] OTHER -> c

\* ---------------------------------------------------------------- arithmetic on cells
\* Numbers: ints, floats and NaN.  The numbers this model divides are
\* non-negative with an integral value.
IsNumber(c) == c.t \in {"int", "float", "nan"}

\* Series == y on one cell x of the series: numbers are equal by value
\* (1 == 1.0), a missing cell (NaN or None) on either side equals nothing,
\* None included, and any other cells are equal if they are the same.
Equals(x, y) ==
    IF x.t \in {"nan", "none"} \/ y.t \in {"nan", "none"} THEN FALSE
    ELSE IF IsNumber(x) /\ IsNumber(y) THEN x.i = y.i /\ x.s = y.s
    ELSE x = y

\* round(p / c, 2) for numbers p and c, c not 0, as numpy computes it on
\* float64: rint(x * 100) / 100 for the float64 quotient x; NaN if p or c is
\* NaN.  100 * p / c is q + r / c.  Off a tie the result is the nearest
\* hundredth.  On a tie (2 * r = c, so that 100 * p / c = m / 2 for the odd
\* m = 2 * q + 1) the rounding errors of the two float operations decide:
\* x is the multiple of 2^-s nearest to m / 200, s = 52 - floor(log2(x)),
\* and differs from it by d / (200 * 2^s); x * 100 is exact to within half a
\* unit in the last place of m / 2, which is 2^(ey - ex) in units of d; if
\* the error is larger, the product falls on the float next to m / 2 on the
\* side of d and rint goes there, otherwise the product is m / 2 and rint
\* goes to the even neighbour.
RoundedQuotient(p, c) ==
    IF p.t = "nan" \/ c.t = "nan" THEN NaNV
    ELSE LET q == (100 * p.i) \div c.i
             r == (100 * p.i) % c.i
             m == 2 * q + 1
             FloorLog2(n, dn) ==
                 CHOOSE e \in -8..20 :
                     LET a == n * 2^(IF e < 0 THEN -e ELSE 0)
                         b == dn * 2^(IF e > 0 THEN e ELSE 0)
                     IN  b <= a /\ a < 2 * b
             ex == FloorLog2(m, 200)
             ey == FloorLog2(m, 2)
             s == 52 - ex
             Pow2Mod25 == <<1, 2, 4, 8, 16, 7, 14, 3, 6, 12, 24, 23, 21, 17, 9, 18, 11, 22, 19, 13>>
             rho == ((m % 200) * (8 * Pow2Mod25[((s - 3) % 20) + 1])) % 200
             d == IF rho < 100 THEN 0 - rho ELSE 200 - rho
             h == IF 2 * r # c.i THEN (IF 2 * r > c.i THEN q + 1 ELSE q)
                  ELSE IF ey - ex = 6 /\ (d > 64 \/ d < -64) THEN (IF d > 0 THEN q + 1 ELSE q)
                  ELSE IF q % 2 = 1 THEN q + 1 ELSE q
             f == h % 100
         IN  Float2(h \div 100, IF f = 0 THEN "" ELSE IF f % 10 = 0 THEN Digit(f \div 10)
                                              ELSE Digit(f \div 10) \o Digit(f % 10))

\* ---------------------------------------------------------------- dashboard.py / new_dashboard.py
\* The outcome of display_df_from_api_split_response: st.dataframe(df),
\* st.error(...) or st.warning(...), or an exception that leaves the function
\* with nothing displayed.
Shown(df) == [kind |-> "dataframe", df |-> df]
ShownError == [kind |-> "error", df |-> EmptyFrame(<<>>)]
ShownWarning == [kind |-> "warning", df |-> EmptyFrame(<<>>)]
Uncaught == [kind |-> "exception", df |-> EmptyFrame(<<>>)]
NotShown == [kind |-> "none", df |-> EmptyFrame(<<>>)]

\* An index under construction: its labels and its level names, or an
\* exception.
IndexOk(labels, names) == [ok |-> TRUE, labels |-> labels, names |-> names]
IndexRaise == [ok |-> FALSE, labels |-> <<>>, names |-> <<NoName>>]

Max(S) == CHOOSE m \in S : \A x \in S : x <= m

\* row, filled up to width w with cell fill.
PadTo(row, w, fill) == [j \in 1..w |-> IF j <= Len(row) THEN row[j] ELSE fill]

\* pd.MultiIndex.from_tuples(tuples, names=names) on a non-empty list.  If
\* every element is an empty tuple, the index has one level and every label
\* is the empty tuple.  Otherwise lib.to_object_array_tuples lays the
\* elements out in rows: an element that is missing (None or NaN) counts as
\* the 1-tuple of itself, len() of any other number raises TypeError, and a
\* str element (one character in this model) counts as the tuple of its
\* characters; the number of levels is the length of the longest element and
\* shorter elements are filled up with None.  Every level is factorized and
\* its labels are read back from its codes (LevelValues): labels that are
\* equal (1 == 1.0) share one code and read as the first of them, the level
\* keeps the distinct labels that are not missing, typed as pandas infers
\* them (ints: int64; numbers with a float among them: float64; anything
\* else: object), and a position without a code (a missing label) reads as
\* NaN, which turns the labels of an int64 level into floats.  The levels are
\* named by names if names has as many entries as there are levels, unnamed
\* if names is None, and any other number of names, or names that are a str,
\* raise ValueError.
MultiIndex_from_tuples(tuples, names) ==
    LET all_empty == \A i \in 1..Len(tuples) : tuples[i].list /\ tuples[i].v = <<>>
        width == Max({Len(tuples[i].v) : i \in 1..Len(tuples)})
        k == IF all_empty THEN 1 ELSE width
        padded == [i \in 1..Len(tuples) |-> PadTo(tuples[i].v, width, NoneV)]
        LevelValues(l) ==
            LET col == [i \in 1..Len(padded) |-> padded[i][l]]
                missing(c) == c.t \in {"none", "nan"}
                first(i) == col[CHOOSE j \in 1..i :
                                /\ Equals(col[j], col[i])
                                /\ \A j2 \in 1..(j - 1) : ~Equals(col[j2], col[i])]
                present == {i \in 1..Len(col) : ~missing(col[i])}
                numeric == \A i \in present : first(i).t \in {"int", "float"}
                floats == numeric /\ \E i \in present : first(i).t = "float"
                filled == numeric /\ \E i \in 1..Len(col) : missing(col[i])
            IN  [i \in 1..Len(col) |->
                    IF missing(col[i]) THEN NaNV
                    ELSE IF (floats \/ filled) /\ first(i).t = "int" THEN FloatV(first(i).i)
                    ELSE first(i)]
        levels == [l \in 1..width |-> LevelValues(l)]
        labels == IF all_empty THEN [i \in 1..Len(tuples) |-> <<[t |-> "tuple", i |-> 0, s |-> ""]>>]
                  ELSE [i \in 1..Len(tuples) |-> [l \in 1..width |-> levels[l][i]]]
    IN  IF \E i \in 1..Len(tuples) : ~tuples[i].list /\ tuples[i].v[1].t \in {"int", "float"} THEN IndexRaise
        ELSE IF ~names.some THEN IndexOk(labels, [l \in 1..k |-> NoName])
        ELSE IF IsStrNames(names) THEN IndexRaise
        ELSE IF Len(names.v) = k THEN IndexOk(labels, names.v)
        ELSE IndexRaise

\* A variant of idx_name_for_single that never names the index.
idx_name_for_single_Unnamed(index_level_names) == NoName

\* The name of a single-level index: index_level_names[0] if it is a list
\* of exactly one name, index_level_names itself if it is a str.
idx_name_for_single(index_level_names) ==
    IF IsStrNames(index_level_names) THEN index_level_names.v[2]
    ELSE IF index_level_names.some /\ Len(index_level_names.v) = 1
    THEN index_level_names.v[1] ELSE NoName

\* The type inference of pandas on a list of scalars, column j of a list of
\* rows for pd.DataFrame and the list of labels for pd.Index
\* (lib.maybe_convert_objects): a list of numbers and missing cells that
\* holds a number or a NaN, and a float or a missing cell, becomes float64
\* (an int n becomes n.0, a float keeps its value, a missing cell becomes
\* NaN); any other list keeps its cells, so a list of None only stays None.
InferColumn(rows, j) ==
    LET col == [r \in 1..Len(rows) |-> rows[r][j]]
        missing(c) == c.t \in {"none", "nan"}
        numeric == /\ \E r \in 1..Len(col) : col[r].t \in {"int", "float", "nan"}
                   /\ \A r \in 1..Len(col) : missing(col[r]) \/ col[r].t \in {"int", "float"}
        floats == numeric /\ \E r \in 1..Len(col) : missing(col[r]) \/ col[r].t = "float"
    IN  [r \in 1..Len(col) |->
            IF ~floats THEN col[r]
            ELSE IF missing(col[r]) THEN NaNV
            ELSE IF col[r].t = "int" THEN FloatV(col[r].i)
            ELSE col[r]]

\* The index rebuilt from the "index" and "data" arrays; [given |-> FALSE]
\* stands for reconstructed_index = None.  pd.Index infers the type of
\* scalar labels as InferColumn does; an array among scalar labels is kept
\* as one label that is a tuple, and the index is then of objects.
reconstructed_index(index_from_json, data_from_json, index_level_names) ==
    IF index_from_json # <<>>
    THEN IF index_from_json[1].list
         THEN [given |-> TRUE, idx |-> MultiIndex_from_tuples(index_from_json, index_level_names)]
         ELSE LET scalars == \A i \in 1..Len(index_from_json) : ~index_from_json[i].list
                  raw == [i \in 1..Len(index_from_json) |-> index_from_json[i].v]
                  inferred == InferColumn(raw, 1)
              IN  [given |-> TRUE,
                   idx |-> IndexOk([i \in 1..Len(raw) |-> IF scalars THEN <<inferred[i]>> ELSE raw[i]],
                                   <<idx_name_for_single(index_level_names)>>)]
    ELSE IF data_from_json = <<>>
         THEN [given |-> TRUE, idx |-> IndexOk(<<>>, <<NoName>>)]
         ELSE [given |-> FALSE, idx |-> IndexOk(<<>>, <<NoName>>)]

\* A variant of DataFrame in which an empty list of rows gives a frame
\* without columns.
DataFrame_EmptyWithoutColumns(data, index, columns) ==
    IF ~index.idx.ok THEN Raise
    ELSE IF data = <<>>
    THEN Ok([columns |-> <<>>, index |-> index.idx.labels, names |-> index.idx.names,
             data |-> [r \in 1..Len(index.idx.labels) |-> <<>>], dtypes |-> {}])
    ELSE LET w == Max({Len(data[r]) : r \in 1..Len(data)})
             padded == [r \in 1..Len(data) |-> PadTo(data[r], w, NoneV)]
             cols == [j \in 1..w |-> InferColumn(padded, j)]
             cells == [r \in 1..Len(data) |-> [j \in 1..w |-> cols[j][r]]]
         IN  IF w # Len(columns) THEN Raise
             ELSE IF ~index.given
             THEN Ok([columns |-> columns, index |-> RangeIndex(Len(data)), names |-> <<NoName>>, data |-> cells, dtypes |-> {}])
             ELSE IF w = 0
             THEN Ok([columns |-> columns, index |-> index.idx.labels, names |-> index.idx.names,
                      data |-> [r \in 1..Len(index.idx.labels) |-> <<>>], dtypes |-> {}])
             ELSE IF Len(index.idx.labels) # Len(data) THEN Raise
             ELSE Ok([columns |-> columns, index |-> index.idx.labels, names |-> index.idx.names, data |-> cells, dtypes |-> {}])

\* pd.DataFrame(data=data, index=index, columns=columns) for a list of rows.
\* An empty list gives a frame of NaN over the given index and columns.
\* Otherwise the rows are filled up with None to the length w of the longest
\* row; ValueError unless w = len(columns) and the index, if given, has one
\* label per row.  The length of the index is checked against each column
\* array, so with no column (w = 0) any index is taken as it is.
DataFrame(data, index, columns) ==
    IF ~index.idx.ok THEN Raise
    ELSE IF data = <<>>
    THEN Ok([columns |-> columns, index |-> index.idx.labels, names |-> index.idx.names,
             data |-> [r \in 1..Len(index.idx.labels) |-> [j \in 1..Len(columns) |-> NaNV]], dtypes |-> {}])
    ELSE LET w == Max({Len(data[r]) : r \in 1..Len(data)})
             padded == [r \in 1..Len(data) |-> PadTo(data[r], w, NoneV)]
             cols == [j \in 1..w |-> InferColumn(padded, j)]
             cells == [r \in 1..Len(data) |-> [j \in 1..w |-> cols[j][r]]]
         IN  IF w # Len(columns) THEN Raise
             ELSE IF ~index.given
             THEN Ok([columns |-> columns, index |-> RangeIndex(Len(data)), names |-> <<NoName>>, data |-> cells, dtypes |-> {}])
             ELSE IF w = 0
             THEN Ok([columns |-> columns, index |-> index.idx.labels, names |-> index.idx.names,
                      data |-> [r \in 1..Len(index.idx.labels) |-> <<>>], dtypes |-> {}])
             ELSE IF Len(index.idx.labels) # Len(data) THEN Raise
             ELSE Ok([columns |-> columns, index |-> index.idx.labels, names |-> index.idx.names, data |-> cells, dtypes |-> {}])

\* df[col] = df[col].astype(str) for every column named in categorical_cols;
\* new_dashboard.py leaves a column without rows alone.
stringify(df, categorical_cols, skip_empty) ==
    IF skip_empty /\ df.data = <<>> THEN df
    ELSE [df EXCEPT !.data = [r \in 1..Len(df.data) |->
            [j \in 1..Len(df.columns) |->
                IF df.columns[j] \in categorical_cols THEN AsStr(df.data[r][j]) ELSE df.data[r][j]]]]

\* display_df_from_api_split_response of dashboard.py (new_version FALSE)
\* and of new_dashboard.py (new_version TRUE).  dashboard.py first prints
\* the len() of the three parts, which raises TypeError for a part that is
\* null, before any guard and outside the try.  Then: st.warning for an
\* incomplete object; else the table is rebuilt, its categorical columns are
\* turned into strings (new_dashboard.py leaves a table without rows alone)
\* and st.dataframe is called with it, and any exception on the way ends in
\* st.error.
display_df_from_api_split_response(response_data_split, index_level_names, categorical_cols, new_version) ==
    LET idx == reconstructed_index(response_data_split.index, response_data_split.data, index_level_names)
        df_display == DataFrame(response_data_split.data, idx, response_data_split.columns)
    IN  IF ~new_version /\ response_data_split.incomplete \in {"index", "columns", "data"} THEN Uncaught
        ELSE IF response_data_split.incomplete # "" THEN ShownWarning
        ELSE IF df_display.ok THEN Shown(stringify(df_display.df, categorical_cols, new_version))
        ELSE ShownError

\* ---------------------------------------------------------------- descriptive.py
\* DataFrame.empty: no rows or no columns.
IsEmpty(df) == df.index = <<>> \/ df.columns = <<>>

\* self.data.select_dtypes(['bool', 'category', 'object']): a new table of
\* the object columns.
select_dtypes(df) ==
    TakeCols(df, SelectSeq([j \in 1..Len(df.columns) |-> j], LAMBDA j : Dtype(df, j) = "object"))

\* The cell of h hundredths, h >= 0.
Hundredths(h) ==
    Float2(h \div 100, IF h % 100 = 0 THEN "" ELSE IF h % 10 = 0 THEN Digit((h % 100) \div 10)
                                    ELSE Digit((h % 100) \div 10) \o Digit(h % 10))

RECURSIVE Gcd(_, _)
Gcd(a, b) == IF b = 0 THEN a ELSE Gcd(b, a % b)

\* The float a / b for ints a >= 0 and b > 0: a cell of hundredths where the
\* quotient is one, else the integral part with the rest written as the
\* fraction "(n/d)" in lowest terms.
FloatRatio(a, b) ==
    IF (100 * a) % b = 0 THEN Hundredths((100 * a) \div b)
    ELSE LET g == Gcd(a % b, b)
         IN  Float2(a \div b, "(" \o IntToStr((a % b) \div g) \o "/" \o IntToStr(b \div g) \o ")")

\* The strings of this model in the order str compares them.
StrOrder == <<"All", "E">>

\* The place of a cell that is not missing in the order pandas sorts group
\* keys: numbers by value (a number of at most two decimals is placed by
\* its hundredths), then strings.
KeyRank(c) ==
    IF c.t \in {"int", "float"}
    THEN 100 * c.i + (IF \E n \in 1..99 : Hundredths(n).s = c.s
                      THEN CHOOSE n \in 1..99 : Hundredths(n).s = c.s ELSE 0)
    ELSE 1000000000 + (IF \E k \in 1..Len(StrOrder) : StrOrder[k] = c.s
                       THEN CHOOSE k \in 1..Len(StrOrder) : StrOrder[k] = c.s ELSE 0)

\* Group keys are tuples of cells, compared entry by entry.
KeyBefore(x, y) ==
    \E k \in 1..Len(x) : /\ \A j \in 1..(k - 1) : KeyRank(x[j]) = KeyRank(y[j])
                         /\ KeyRank(x[k]) < KeyRank(y[k])

RECURSIVE SortKeys(_)
SortKeys(keys) ==
    Bind(keys, LAMBDA S :
        IF S = {} THEN <<>>
        ELSE Bind(CHOOSE x \in S : \A y \in S : ~KeyBefore(y, x), LAMBDA m :
                 <<m>> \o SortKeys(S \ {m})))

\* The keys of a sequence of keys, each as it occurs first, in sorted order.
GroupKeys(keys) ==
    Bind(keys, LAMBDA ks :
        SortKeys({ks[i] : i \in {i \in 1..Len(ks) :
                                   \A j \in 1..(i - 1) : \E k \in 1..Len(ks[i]) : ~Equals(ks[j][k], ks[i][k])}}))

\* Column name of a table that has one column of that name, as the sequence
\* of its cells.
SeriesOf(df, name) ==
    LET j == CHOOSE p \in 1..Len(df.columns) : df.columns[p] = name
    IN  [r \in 1..Len(df.data) |-> df.data[r][j]]

\* Descriptive.frequency_table on a table with rows: ValueError unless
\* column_name is a bool, category or object column; else
\* pd.crosstab(index=data[column_name], columns="count"): ValueError if
\* several columns carry the name (data[column_name] is a table then); else
\* one row per distinct value in sorted order, the rows of a missing value
\* left out, the index named after the column; a table without rows and
\* without columns if every value is missing.
frequency_table(data, column_name) ==
    IF ~InSeq(column_name, select_dtypes(data).columns) THEN Raise
    ELSE IF Len(Positions(data.columns, column_name)) # 1 THEN Raise
    ELSE Bind(SelectSeq(SeriesOf(data, column_name), LAMBDA c : c.t \notin {"nan", "none"}), LAMBDA col :
         Bind(GroupKeys([r \in 1..Len(col) |-> <<col[r]>>]), LAMBDA keys :
             Ok([columns |-> IF keys = <<>> THEN <<>> ELSE <<"count">>,
                 index |-> keys,
                 names |-> <<column_name>>,
                 data |-> [i \in 1..Len(keys) |->
                              <<IntV(Cardinality({r \in 1..Len(col) : Equals(col[r], keys[i][1])}))>>],
                 dtypes |-> {}])))

\* A variant of data_filter that keeps the rows meeting any one of the
\* conditions.
data_filter_AnyCondition(data, col, value) ==
    IF Len(col) # Len(value) THEN Raise
    ELSE IF col = <<>> THEN Ok(data)
    ELSE IF \E i \in 1..Len(col) : ~InSeq(col[i], data.columns) THEN Raise
    ELSE LET keep == SelectSeq([r \in 1..Len(data.data) |-> r],
                               LAMBDA r : \E i \in 1..Len(col) : Equals(SeriesOf(data, col[i])[r], value[i]))
         IN  Ok([data EXCEPT !.index = [i \in 1..Len(keep) |-> data.index[keep[i]]],
                             !.data = [i \in 1..Len(keep) |-> data.data[keep[i]]]])

\* Descriptive.data_filter with a list of columns and a list of values:
\* ValueError if the lists differ in length or a column is not in the table;
\* with empty lists a copy of the table; else the rows r with
\* r[col[i]] == value[i] for every i, under their own labels.
data_filter(data, col, value) ==
    IF Len(col) # Len(value) THEN Raise
    ELSE IF col = <<>> THEN Ok(data)
    ELSE IF \E i \in 1..Len(col) : ~InSeq(col[i], data.columns) THEN Raise
    ELSE LET keep == SelectSeq([r \in 1..Len(data.data) |-> r],
                               LAMBDA r : \A i \in 1..Len(col) : Equals(SeriesOf(data, col[i])[r], value[i]))
         IN  Ok([data EXCEPT !.index = [i \in 1..Len(keep) |-> data.index[keep[i]]],
                             !.data = [i \in 1..Len(keep) |-> data.data[keep[i]]]])

\* Diamonds.price_per_carat on the instance's data, which has the columns
\* 'price' and 'carat' of the diamonds dataset: the column price_per_carat =
\* round(price / carat, 2) is written into the table itself.
price_per_carat(data) ==
    SetColumn(data, "price_per_carat",
              [r \in 1..Len(data.data) |->
                  RoundedQuotient(SeriesOf(data, "price")[r], SeriesOf(data, "carat")[r])])

\* DataFrame.to_dict('records'): one dict per row, keyed by column name; of
\* columns with the same name the last one is kept.  The rows are the zip of
\* the columns (itertuples without the index): a table without columns
\* gives no record, whatever its number of rows.
to_dict_records(df) ==
    IF df.columns = <<>> THEN <<>>
    ELSE [r \in 1..Len(df.data) |->
             [c \in {df.columns[j] : j \in 1..Len(df.columns)} |->
                 df.data[r][Max({p \in 1..Len(df.columns) : df.columns[p] = c})]]]

\* An entry of describe() this model does not compute: the mean, the
\* standard deviation or a quantile of values that differ, or a value that
\* rounding changes.
Stat(name) == [t |-> "stat", i |-> 0, s |-> name]

\* Series.describe() of a numeric column, rounded to precision decimals:
\* count, mean, std, min, 25%, 50%, 75%, max, as floats, over the cells
\* that are not missing.  Without such a cell the count is 0 and the rest
\* NaN; the standard deviation of one value is NaN.
DescribeNumeric(col, precision) ==
    Bind(SelectSeq(col, LAMBDA c : c.t \in {"int", "float"}), LAMBDA present :
        LET n == Len(present)
            Rounded(c) == IF c.s = "" \/ Len(c.s) <= precision THEN [c EXCEPT !.t = "float"] ELSE Stat("round")
            same == \A k \in 1..n : Equals(present[k], present[1])
            least == CHOOSE k \in 1..n : \A j \in 1..n : KeyRank(present[k]) <= KeyRank(present[j])
            greatest == CHOOSE k \in 1..n : \A j \in 1..n : KeyRank(present[j]) <= KeyRank(present[k])
            middle(name) == IF n = 0 THEN NaNV ELSE IF same THEN Rounded(present[1]) ELSE Stat(name)
        IN  <<FloatV(n),
              middle("mean"),
              IF n <= 1 THEN NaNV ELSE IF same THEN FloatV(0) ELSE Stat("std"),
              IF n = 0 THEN NaNV ELSE Rounded(present[least]),
              middle("25%"), middle("50%"), middle("75%"),
              IF n = 0 THEN NaNV ELSE Rounded(present[greatest])>>)

\* The table describe() builds: one row per entry, one column per described
\* column.
DescribeFrame(columns, labels, entries) ==
    [columns |-> columns,
     index |-> [k \in 1..Len(labels) |-> <<StrV(labels[k])>>],
     names |-> <<NoName>>,
     data |-> [k \in 1..Len(labels) |-> [j \in 1..Len(columns) |-> entries[j][k]]],
     dtypes |-> {}]

\* Descriptive.numerical_describe: self.data.describe(include='number')
\* .round(precision).  ValueError for a table without columns and for a
\* table without a numeric column.
numerical_describe(data, precision) ==
    Bind(SelectSeq([j \in 1..Len(data.columns) |-> j], LAMBDA j : Dtype(data, j) \in {"int64", "float64"}),
         LAMBDA num :
        IF num = <<>> THEN Raise
        ELSE Ok(DescribeFrame([j \in 1..Len(num) |-> data.columns[num[j]]],
                              <<"count", "mean", "std", "min", "25%", "50%", "75%", "max">>,
                              [j \in 1..Len(num) |->
                                  DescribeNumeric([r \in 1..Len(data.data) |-> data.data[r][num[j]]], precision)])))

\* Series.describe() of an object column: the number of cells that are not
\* missing, the number of distinct values among them, the most frequent
\* value (of several, the one met first) and its frequency; 0, 0, NaN, NaN
\* without such a cell.  The numbers are floats if the most frequent value
\* is a float.
DescribeObject(col) ==
    Bind(SelectSeq(col, LAMBDA c : c.t \notin {"nan", "none"}), LAMBDA present :
        LET n == Len(present)
            first == {k \in 1..n : \A j \in 1..(k - 1) : ~Equals(present[j], present[k])}
            freq(k) == Cardinality({j \in 1..n : Equals(present[j], present[k])})
            top == CHOOSE k \in first : \A j \in first : freq(j) < freq(k) \/ (freq(j) = freq(k) /\ k <= j)
            entry(m) == IF present[top].t = "float" THEN FloatV(m) ELSE IntV(m)
        IN  IF n = 0 THEN <<IntV(0), IntV(0), NaNV, NaNV>>
            ELSE <<entry(n), entry(Cardinality(first)), present[top], entry(freq(top))>>)

\* Descriptive.categorical_describe: self.data.describe(include=['category',
\* 'object']).  ValueError for a table without columns and for a table
\* without an object column.
categorical_describe(data) ==
    Bind(SelectSeq([j \in 1..Len(data.columns) |-> j], LAMBDA j : Dtype(data, j) = "object"), LAMBDA obj :
        IF obj = <<>> THEN Raise
        ELSE Ok(DescribeFrame([j \in 1..Len(obj) |-> data.columns[obj[j]]],
                              <<"count", "unique", "top", "freq">>,
                              [j \in 1..Len(obj) |->
                                  DescribeObject([r \in 1..Len(data.data) |-> data.data[r][obj[j]]])])))

\* Descriptive.categorical_data: self.data[cat_columns] for the object and
\* int64 columns.
categorical_data(data) ==
    Bind(SelectSeq([j \in 1..Len(data.columns) |-> j], LAMBDA j : Dtype(data, j) \in {"object", "int64"}),
         LAMBDA cat :
        GetItemCols(data, [k \in 1..Len(cat) |-> data.columns[cat[k]]]).df)

\* A cross-tabulation, or an exception: the labels of its rows and of its
\* columns (tuples of cells, one entry per name) and its rows of cells.
CrossTab(index, columns, data) == [ok |-> TRUE, index |-> index, columns |-> columns, data |-> data]
CrossTabRaise == [ok |-> FALSE, index |-> <<>>, columns |-> <<>>, data |-> <<>>]

\* pd.crosstab(index=[data[n] for n in index_names], columns=[data[n] for n
\* in columns_names], normalize=normalize, margins=margins).  An empty list
\* stands for one key array without entries: with one list empty and rows
\* in data the frame of the keys cannot be built (ValueError), and in the
\* other cases of an empty list no row is counted.  The rows with a missing
\* cell under one of the names are left out.  The table has one row per
\* combination of index
\* values that occurs and one column per combination of column values that
\* occurs, both sorted, and holds the number of rows of each pair (0 for a
\* pair that does not occur); with normalize, the number divided by the
\* number of all rows counted.  margins adds the row and the column 'All'
\* of the totals (('All', '') under two names).  Exceptions: a name that
\* several columns of data carry (data[n] is a table then); margins with
\* 'All' among the values; normalize with margins when no row is counted.
\* Without a row counted and without that, the table has no row and no
\* column.
crosstab(data, index_names, columns_names, normalize, margins) ==
    IF \E k \in 1..Len(index_names \o columns_names) :
           Len(Positions(data.columns, (index_names \o columns_names)[k])) # 1
    THEN CrossTabRaise
    ELSE IF ((index_names = <<>>) # (columns_names = <<>>)) /\ data.data # <<>>
    THEN CrossTabRaise
    ELSE Bind(SelectSeq([r \in 1..(IF index_names = <<>> \/ columns_names = <<>>
                                    THEN 0 ELSE Len(data.data)) |->
                            [row |-> [k \in 1..Len(index_names) |-> SeriesOf(data, index_names[k])[r]],
                             col |-> [k \in 1..Len(columns_names) |-> SeriesOf(data, columns_names[k])[r]]]],
                        LAMBDA key : \A k \in 1..Len(key.row \o key.col) :
                                        (key.row \o key.col)[k].t \notin {"nan", "none"}),
              LAMBDA counted :
         Bind(GroupKeys([i \in 1..Len(counted) |-> counted[i].row]), LAMBDA rowKeys :
         Bind(GroupKeys([i \in 1..Len(counted) |-> counted[i].col]), LAMBDA colKeys :
             LET n == Len(counted)
                 Same(x, y) == \A k \in 1..Len(x) : Equals(x[k], y[k])
                 InRow(x) == {i \in 1..n : Same(counted[i].row, x)}
                 InCol(y) == {i \in 1..n : Same(counted[i].col, y)}
                 entry(m) == IF normalize THEN FloatRatio(m, n) ELSE IntV(m)
                 AllKey(ns) == [k \in 1..Len(ns) |-> IF k = 1 THEN StrV("All") ELSE StrV("")]
             IN  IF margins /\ \E i \in 1..n : \E k \in 1..Len(counted[i].row \o counted[i].col) :
                                   (counted[i].row \o counted[i].col)[k] = StrV("All")
                 THEN CrossTabRaise
                 ELSE IF n = 0 THEN (IF normalize /\ margins THEN CrossTabRaise ELSE CrossTab(<<>>, <<>>, <<>>))
                 ELSE IF ~margins
                 THEN CrossTab(rowKeys, colKeys,
                               [i \in 1..Len(rowKeys) |->
                                   [j \in 1..Len(colKeys) |->
                                       entry(Cardinality(InRow(rowKeys[i]) \cap InCol(colKeys[j])))]])
                 ELSE CrossTab(Append(rowKeys, AllKey(index_names)),
                               Append(colKeys, AllKey(columns_names)),
                               [i \in 1..(Len(rowKeys) + 1) |->
                                   [j \in 1..(Len(colKeys) + 1) |->
                                       entry(Cardinality(
                                           (IF i <= Len(rowKeys) THEN InRow(rowKeys[i]) ELSE 1..n)
                                           \cap (IF j <= Len(colKeys) THEN InCol(colKeys[j]) ELSE 1..n)))]]))))

\* Descriptive.cross_tabs: ValueError for a name that is not a column of
\* categorical_data(); else the cross-tabulation of those columns, whose
\* exceptions go on to the caller.
cross_tabs(data, index_names, columns_names, normalize, margins) ==
    Bind(categorical_data(data), LAMBDA cat_data :
        IF \E k \in 1..Len(index_names \o columns_names) :
               ~InSeq((index_names \o columns_names)[k], cat_data.columns)
        THEN CrossTabRaise
        ELSE crosstab(cat_data, index_names, columns_names, normalize, margins))

\* DataFrame.to_dict("split") of a cross-tabulation: a label is a scalar
\* under one name and a tuple under several.
CrossTabSplit(t, index_names, columns_names) ==
    [index |-> [i \in 1..Len(t.index) |->
                   IF Len(index_names) > 1 THEN JList(t.index[i]) ELSE JScalar(t.index[i][1])],
     columns |-> [j \in 1..Len(t.columns) |->
                     IF Len(columns_names) > 1 THEN JList(t.columns[j]) ELSE JScalar(t.columns[j][1])],
     data |-> t.data,
     incomplete |-> ""]

\* ---------------------------------------------------------------- api_descriptive_handlers.py / api_plot_handlers.py
\* "if include_columns": the list is given and not empty.
Truthy(l) == l.some /\ l.v # <<>>

\* What a handler returns, and what an endpoint answers: shape carries
\* <<rows, columns>>, split one split form, records the list of dicts, image
\* the number of plots drawn, counts one dict from column name to number.
\* Of the text df.info() writes, shape carries the numbers of rows and of
\* columns it reports.
Result(status, kind) ==
    [status |-> status, kind |-> kind, shape |-> <<>>, split |-> <<>>, records |-> <<>>, image |-> <<>>,
     counts |-> <<>>]
ReturnsNone == Result(0, "None")
NoResponse == Result(0, "none")

\* The outcome of a handler call: the heap after it, the exception it raised
\* ("" if none) and the value it returned.
Value(h, v) == [heap |-> h, exc |-> "", val |-> v]
Throws(h, e) == [heap |-> h, exc |-> e, val |-> NoResponse]

\* Descriptive(df.copy()): the instance's data is a new object.
get_descriptive_instance(h, df) == CopyFrame(h, df)

handle_get_shape(h, base_df, include_columns, exclude_columns) ==
    LET r == get_shaped_dataframe(h, base_df, include_columns, exclude_columns)
    IN  IF r.raised THEN Throws(r.heap, "KeyError")
        ELSE Value(r.heap, [Result(200, "shape") EXCEPT
                               !.shape = <<Len(r.heap[r.ret].index), Len(r.heap[r.ret].columns)>>])

\* Series.nunique(): the number of distinct values that are not missing.
nunique(col) ==
    Cardinality({k \in 1..Len(col) : /\ col[k].t \notin {"nan", "none"}
                                      /\ \A j \in 1..(k - 1) : ~Equals(col[j], col[k])})

\* The dict of Series.to_dict() for the numbers of distinct values of the
\* columns of picked; of columns of one name the last one counts.
UniqueCounts(picked) ==
    [c \in {picked.columns[j] : j \in 1..Len(picked.columns)} |->
        nunique([i \in 1..Len(picked.data) |->
                    picked.data[i][CHOOSE j \in 1..Len(picked.columns) :
                                      /\ picked.columns[j] = c
                                      /\ \A k \in (j + 1)..Len(picked.columns) : picked.columns[k] # c]])]

\* handle_get_unique_counts: {} for an empty shaped table and for one
\* without an object column; else the number of distinct values of every
\* object column, by column name.  The objects it leaves on the heap: the
\* shaped copy, the data of the Descriptive instance, the table select_dtypes
\* builds and the object columns picked from the data.
handle_get_unique_counts(h, base_df, include_columns, exclude_columns) ==
    Bind(get_shaped_dataframe(h, base_df, include_columns, exclude_columns), LAMBDA r :
        IF r.raised THEN Throws(r.heap, "KeyError")
        ELSE IF IsEmpty(r.heap[r.ret])
        THEN Value(r.heap, [Result(200, "counts") EXCEPT !.counts = << <<>> >>])
        ELSE Bind(get_descriptive_instance(r.heap, r.ret), LAMBDA h1 :
             Bind(select_dtypes(h1[Len(h1)]), LAMBDA selected :
                 IF selected.columns = <<>>
                 THEN Value(Append(h1, selected), [Result(200, "counts") EXCEPT !.counts = << <<>> >>])
                 ELSE Bind(GetItemCols(h1[Len(h1)], selected.columns).df, LAMBDA picked :
                          Value(Append(Append(h1, selected), picked),
                                [Result(200, "counts") EXCEPT !.counts = <<UniqueCounts(picked)>>])))))

\* handle_numerical_summary: both branches describe the shaped table.  The
\* objects it leaves on the heap: the shaped copy, the numeric columns
\* selected for the test (if the shaped table is not empty), the data of
\* the Descriptive instance and the summary.
handle_numerical_summary(h, base_df, precision, include_columns, exclude_columns) ==
    Bind(get_shaped_dataframe(h, base_df, include_columns, exclude_columns), LAMBDA r :
        IF r.raised THEN Throws(r.heap, "KeyError")
        ELSE Bind(r.heap[r.ret], LAMBDA df_to_process :
             Bind(IF IsEmpty(df_to_process) THEN r.heap
                  ELSE Append(r.heap,
                              TakeCols(df_to_process,
                                       SelectSeq([j \in 1..Len(df_to_process.columns) |-> j],
                                                 LAMBDA j : Dtype(df_to_process, j) \in {"int64", "float64"}))),
                  LAMBDA h1 :
             Bind(get_descriptive_instance(h1, r.ret), LAMBDA h2 :
             Bind(numerical_describe(h2[Len(h2)], precision), LAMBDA summary_df :
                 IF ~summary_df.ok THEN Throws(h2, "ValueError")
                 ELSE Value(Append(h2, summary_df.df),
                            [Result(200, "split") EXCEPT !.split = <<to_dict_split(summary_df.df)>>]))))))

handle_categorical_summary(h, base_df, include_columns, exclude_columns) ==
    Bind(get_shaped_dataframe(h, base_df, include_columns, exclude_columns), LAMBDA r :
        IF r.raised THEN Throws(r.heap, "KeyError")
        ELSE Bind(get_descriptive_instance(r.heap, r.ret), LAMBDA h1 :
             Bind(categorical_describe(h1[Len(h1)]), LAMBDA summary_df :
                 IF ~summary_df.ok THEN Throws(h1, "ValueError")
                 ELSE Value(Append(h1, summary_df.df),
                            [Result(200, "split") EXCEPT !.split = <<to_dict_split(summary_df.df)>>]))))

\* handle_data_info_string: the text of df.info() for the shaped table.
handle_data_info_string(h, base_df, include_columns, exclude_columns) ==
    Bind(get_shaped_dataframe(h, base_df, include_columns, exclude_columns), LAMBDA r :
        IF r.raised THEN Throws(r.heap, "KeyError")
        ELSE Value(get_descriptive_instance(r.heap, r.ret),
                   [Result(200, "info") EXCEPT
                       !.shape = <<Len(r.heap[r.ret].index), Len(r.heap[r.ret].columns)>>]))

\* handle_frequency_table.  The objects it leaves on the heap: the shaped
\* copy; for an empty shaped table the unused empty_df; else the data of
\* the Descriptive instance, the table select_dtypes builds inside
\* frequency_table, and the crosstab.
handle_frequency_table(h, base_df, column_name, include_columns, exclude_columns) ==
    LET r == get_shaped_dataframe(h, base_df, include_columns, exclude_columns)
    IN  IF r.raised THEN Throws(r.heap, "KeyError")
        ELSE LET df_to_process == r.heap[r.ret]
             IN  IF ~InSeq(column_name, df_to_process.columns) THEN Throws(r.heap, "ValueError")
                 ELSE IF IsEmpty(df_to_process)
                 THEN LET empty_df == [columns |-> <<"count">>, index |-> <<>>,
                                       names |-> <<column_name>>, data |-> <<>>, dtypes |-> {}]
                      IN  Value(Append(r.heap, empty_df),
                                [Result(200, "split") EXCEPT
                                    !.split = <<[index |-> <<>>, columns |-> <<"count">>, data |-> <<>>,
                                                 incomplete |-> ""]>>])
                 ELSE LET h1 == get_descriptive_instance(r.heap, r.ret)
                          h2 == Append(h1, select_dtypes(h1[Len(h1)]))
                          freq_table_df == frequency_table(h1[Len(h1)], column_name)
                      IN  IF ~freq_table_df.ok THEN Throws(h2, "ValueError")
                          ELSE Value(Append(h2, freq_table_df.df),
                                     [Result(200, "split") EXCEPT !.split = <<to_dict_split(freq_table_df.df)>>])

\* handle_cross_tabs: ValueError for a name that is not a column of the
\* shaped table, and for every exception of Descriptive.cross_tabs.  The
\* objects it leaves on the heap: the shaped copy, the data of the
\* Descriptive instance and the table categorical_data returns.
handle_cross_tabs(h, base_df, index_names, columns_names, include_columns, exclude_columns, normalize, margins) ==
    Bind(get_shaped_dataframe(h, base_df, include_columns, exclude_columns), LAMBDA r :
        IF r.raised THEN Throws(r.heap, "KeyError")
        ELSE IF \E k \in 1..Len(index_names \o columns_names) :
                    ~InSeq((index_names \o columns_names)[k], r.heap[r.ret].columns)
        THEN Throws(r.heap, "ValueError")
        ELSE Bind(get_descriptive_instance(r.heap, r.ret), LAMBDA h1 :
             Bind(cross_tabs(h1[Len(h1)], index_names, columns_names, normalize, margins), LAMBDA cross_tab_df :
                 IF ~cross_tab_df.ok THEN Throws(Append(h1, categorical_data(h1[Len(h1)])), "ValueError")
                 ELSE Value(Append(h1, categorical_data(h1[Len(h1)])),
                            [Result(200, "split") EXCEPT
                                !.split = <<CrossTabSplit(cross_tab_df, index_names, columns_names)>>]))))

handle_get_data_filter(h, base_df, filter_cols, filter_values, include_columns, exclude_columns) ==
    LET h1 == get_descriptive_instance(h, base_df)
        row_filtered_df == data_filter(h1[Len(h1)], filter_cols, filter_values)
    IN  IF ~row_filtered_df.ok THEN Throws(h1, "ValueError")
        ELSE LET h2 == Append(h1, row_filtered_df.df)
                 r == get_shaped_dataframe(h2, Len(h2), include_columns, exclude_columns)
             IN  IF r.raised THEN Throws(r.heap, "KeyError")
                 ELSE Value(r.heap, [Result(200, "records") EXCEPT !.records = to_dict_records(r.heap[r.ret])])

\* math.ceil(math.sqrt(n)) for the numbers of plots of this model, where the
\* floating-point square root is exact enough for ceil to give the integer
\* result.
CeilSqrt(n) == CHOOSE k \in 0..n : k * k >= n /\ (k = 0 \/ (k - 1) * (k - 1) < n)

\* A variant of GridOf that rounds the number of rows down.
GridOf_RowsRoundedDown(num_plots) ==
    LET ncols == CeilSqrt(num_plots)
    IN  [ncols |-> ncols, nrows |-> num_plots \div ncols]

\* The grid of the dashboard figure for num_plots >= 1 configurations:
\* ceil(sqrt(num_plots)) columns and ceil(num_plots / ncols) rows.
GridOf(num_plots) ==
    LET ncols == CeilSqrt(num_plots)
    IN  [ncols |-> ncols, nrows |-> (num_plots + ncols - 1) \div ncols]

\* plt.subplots(nrows, ncols, squeeze=False) and axes.flatten(): nrows * ncols
\* axes, visible and without anything on them.  An axis: what was put on it
\* ("": nothing) and whether it is visible.
AxesFlat(nrows, ncols) == [j \in 1..(nrows * ncols) |-> [mark |-> "", visible |-> TRUE]]

\* What one pass of the loop puts on the axis of a configuration:
\*   "unknown"   the type is not one of the plot methods (title in orange);
\*   "error"     a required column (col_name, if given) is not a column of
\*               the shaped table, or the plot method raises (title in red);
\*   "returned"  the plot method returns without a plot: crosstab_heatmap
\*               catches every exception of its own and returns the axis
\*               (static_plots.py:605-621), bar_chart returns after writing
\*               its own message for a missing hue column (472-474);
\*   "plot"      the plot method draws the plot.
\* config.effect says what the plot method does when it is called ("draws",
\* "raises", "returns"): what seaborn does with the data is outside this model.
MarkOf(config, df_to_process) ==
    IF config.type \notin {"histogram", "kde", "scatter", "crosstab_heatmap", "bar_chart", "count_plot"}
    THEN "unknown"
    ELSE IF config.col_name # "" /\ ~InSeq(config.col_name, df_to_process.columns)
    THEN "error"
    ELSE CASE config.effect = "raises" -> "error"
           [] config.effect = "returns" -> "returned"
           [] config.effect = "draws" -> "plot"

\* plotted_count += 1: the plot method was called and returned without an
\* exception.
IsPlotted(config, df_to_process) == MarkOf(config, df_to_process) \in {"plot", "returned"}

\* A variant of LoopPass that leaves the loop at the first configuration
\* that is not plotted.
LoopPass_StopAtFailure(axes_flat, plotted_count, i, config_item, df_to_process) ==
    IF i >= Len(axes_flat)
    THEN [axes_flat |-> axes_flat, plotted_count |-> plotted_count, i |-> i, break |-> TRUE]
    ELSE [axes_flat |-> [axes_flat EXCEPT ![i + 1].mark = MarkOf(config_item, df_to_process)],
          plotted_count |-> IF IsPlotted(config_item, df_to_process) THEN plotted_count + 1 ELSE plotted_count,
          i |-> i + 1,
          break |-> ~IsPlotted(config_item, df_to_process)]

\* One pass of the loop, for the configuration config_item at index i: break
\* if there is no axis of that index; else the axis of index i (position
\* i + 1 here) gets the mark of the configuration, the counter is increased
\* if the plot method returned, and the loop goes on with the next index.
LoopPass(axes_flat, plotted_count, i, config_item, df_to_process) ==
    IF i >= Len(axes_flat)
    THEN [axes_flat |-> axes_flat, plotted_count |-> plotted_count, i |-> i, break |-> TRUE]
    ELSE [axes_flat |-> [axes_flat EXCEPT ![i + 1].mark = MarkOf(config_item, df_to_process)],
          plotted_count |-> IF IsPlotted(config_item, df_to_process) THEN plotted_count + 1 ELSE plotted_count,
          i |-> i + 1,
          break |-> FALSE]

\* for j in range(plotted_count, len(axes_flat)): axes_flat[j].set_visible(False)
\* (axes_flat[j] of the code is the axis at position j + 1 here).
HideUnused(axes_flat, plotted_count) ==
    [j \in 1..Len(axes_flat) |->
        IF j > plotted_count THEN [axes_flat[j] EXCEPT !.visible = FALSE] ELSE axes_flat[j]]

\* handle_generate_dashboard_plot.  savefig says what fig.savefig does with
\* the finished figure ("saves" or "raises"): if it raises, the figure is
\* closed and the handler returns None.
handle_generate_dashboard_plot(h, base_df, plot_configurations, include_columns, exclude_columns, savefig) ==
    LET r == get_shaped_dataframe(h, base_df, include_columns, exclude_columns)
    IN  IF r.raised THEN Throws(r.heap, "KeyError")
        ELSE LET df_to_process == r.heap[r.ret]
                 h1 == CopyFrame(r.heap, r.ret)
                 plotted_count == Cardinality({i \in 1..Len(plot_configurations) :
                                                  IsPlotted(plot_configurations[i], df_to_process)})
             IN  IF IsEmpty(df_to_process) /\ (Truthy(include_columns) \/ Truthy(exclude_columns))
                 THEN Value(r.heap, ReturnsNone)
                 ELSE IF Len(plot_configurations) = 0 THEN Value(h1, ReturnsNone)
                 ELSE IF plotted_count = 0 THEN Value(h1, ReturnsNone)
                 ELSE IF savefig = "raises" THEN Value(h1, ReturnsNone)
                 ELSE Value(h1, [Result(200, "image") EXCEPT !.image = <<plotted_count>>])

\* hue_col is "" for an absent hue column; draws: dist_plot returns a figure.
handle_generate_displot(h, base_df, col_name, hue_col, draws, include_columns, exclude_columns) ==
    LET r == get_shaped_dataframe(h, base_df, include_columns, exclude_columns)
    IN  IF r.raised THEN Throws(r.heap, "KeyError")
        ELSE LET df_to_process == r.heap[r.ret]
             IN  IF ~InSeq(col_name, df_to_process.columns) THEN Throws(r.heap, "ValueError")
                 ELSE IF hue_col # "" /\ ~InSeq(hue_col, df_to_process.columns) THEN Throws(r.heap, "ValueError")
                 ELSE IF IsEmpty(df_to_process) THEN Value(r.heap, ReturnsNone)
                 ELSE IF ~draws THEN Value(CopyFrame(r.heap, r.ret), ReturnsNone)
                 ELSE Value(CopyFrame(r.heap, r.ret), [Result(200, "image") EXCEPT !.image = <<1>>])

\* ---------------------------------------------------------------- main.py
\* A request: the endpoint (kind) and its parameters; the parameters an
\* endpoint does not take are left at their defaults.
Request(kind, include_columns, exclude_columns) ==
    [kind |-> kind, include_columns |-> include_columns, exclude_columns |-> exclude_columns,
     column_name |-> "", hue_col |-> "", draws |-> FALSE, savefig |-> "saves",
     filter_cols |-> <<>>, filter_values |-> <<>>, payload |-> <<>>,
     precision |-> 2, index_names |-> <<>>, columns_names |-> <<>>, normalize |-> FALSE, margins |-> FALSE]

\* The answer of an endpoint to the outcome of its handler: the value with
\* status 200; HTTP 400 for ValueError (and TypeError, for the filter); HTTP
\* 500 for any other exception.
Answer(out, badRequest) ==
    IF out.exc = "" THEN out.val
    ELSE IF out.exc \in badRequest THEN Result(400, "error")
    ELSE Result(500, "error")

\* DataFrameSplitResponse(**table_dict) for a cross-tabulation: columns is
\* a list of str, so that a column label that is a number or a tuple is a
\* ValidationError, which is a ValueError (pydantic 2, whose Field(...,
\* examples=...) schemas.py uses, does not convert a number to a str).
AnswerCrossTab(out) ==
    IF out.exc # "" THEN Answer(out, {"ValueError"})
    ELSE LET split == out.val.split[1]
         IN  IF \E j \in 1..Len(split.columns) : split.columns[j].list \/ split.columns[j].v[1].t # "str"
             THEN Result(400, "error")
             ELSE [out.val EXCEPT !.split = <<[split EXCEPT !.columns =
                                                 [j \in 1..Len(split.columns) |-> split.columns[j].v[1].s]]>>]

\* The plot endpoints answer HTTP 500 when the handler returns None.
AnswerImage(out) ==
    IF out.exc = "" /\ out.val.kind = "None" THEN Result(500, "error")
    ELSE Answer(out, {"ValueError"})

\* The endpoint of request q called with the table object base_df: the heap
\* after the call and the response, which is what the endpoint function
\* returns or the HTTPException it raises; the rendering of the returned
\* object as JSON comes after the function and is not part of it.
Endpoint(h, base_df, q) ==
    Bind(CASE q.kind = "shape" ->
                 handle_get_shape(h, base_df, q.include_columns, q.exclude_columns)
            [] q.kind = "unique-counts" ->
                 handle_get_unique_counts(h, base_df, q.include_columns, q.exclude_columns)
            [] q.kind = "info" ->
                 handle_data_info_string(h, base_df, q.include_columns, q.exclude_columns)
            [] q.kind = "numerical-summary" ->
                 handle_numerical_summary(h, base_df, q.precision, q.include_columns, q.exclude_columns)
            [] q.kind = "categorical-summary" ->
                 handle_categorical_summary(h, base_df, q.include_columns, q.exclude_columns)
            [] q.kind = "cross-tabs" ->
                 handle_cross_tabs(h, base_df, q.index_names, q.columns_names,
                                   q.include_columns, q.exclude_columns, q.normalize, q.margins)
            [] q.kind = "frequency-table" ->
                 handle_frequency_table(h, base_df, q.column_name, q.include_columns, q.exclude_columns)
            [] q.kind = "filter" ->
                 handle_get_data_filter(h, base_df, q.filter_cols, q.filter_values,
                                        q.include_columns, q.exclude_columns)
            [] q.kind = "plots/dashboard" ->
                 IF q.payload = <<>> THEN Throws(h, "HTTP400")
                 ELSE handle_generate_dashboard_plot(h, base_df, q.payload,
                                                     q.include_columns, q.exclude_columns, q.savefig)
            [] q.kind = "plots/displot" ->
                 handle_generate_displot(h, base_df, q.column_name, q.hue_col, q.draws,
                                         q.include_columns, q.exclude_columns)
         , LAMBDA out :
        [heap |-> out.heap,
         resp |-> CASE q.kind \in {"shape", "unique-counts", "info"} -> Answer(out, {})
                    [] q.kind \in {"numerical-summary", "categorical-summary", "frequency-table"} ->
                         Answer(out, {"ValueError"})
                    [] q.kind = "cross-tabs" -> AnswerCrossTab(out)
                    [] q.kind = "filter" -> Answer(out, {"ValueError", "TypeError"})
                    [] q.kind \in {"plots/dashboard", "plots/displot"} ->
                         IF out.exc = "HTTP400" THEN Result(400, "error") ELSE AnswerImage(out)])

\* ---------------------------------------------------------------- api_data_manager.py
\* A data manager: _processed_df (0 for None) and _is_loaded.
Manager(df, loaded) == [_processed_df |-> df, _is_loaded |-> loaded]

\* A data source: the table _load_data_from_source returns, or an exception
\* (a file that cannot be read).
Readable(df) == [ok |-> TRUE, df |-> df]
Unreadable == [ok |-> FALSE, df |-> EmptyFrame(<<>>)]

\* The dtype of the column called name.
DtypeOf(df, name) == Dtype(df, CHOOSE p \in 1..Len(df.columns) : df.columns[p] = name)

\* The first step of _post_process_data on table t: if t has the columns
\* 'price' and 'carat' and no carat is 0 (df['carat'].ne(0) is true for a
\* str and for a missing cell), the column price_per_carat =
\* round(price / carat, 2) is written into it.  For two numeric columns the
\* quotient of a row with a missing cell is NaN and the new column is
\* float64, without rows too.  When one of the columns is
\* an object column, pandas divides the rows in which both cells are present
\* and gives NaN for the others: a str in a row that is divided raises
\* TypeError, the result is an object column, and round() leaves an object
\* column as it is.
AddPricePerCarat(t) ==
    LET rows == 1..Len(t.data)
        price == SeriesOf(t, "price")
        carat == SeriesOf(t, "carat")
        both(r) == price[r].t \notin {"nan", "none"} /\ carat[r].t \notin {"nan", "none"}
    IN  IF ~(/\ InSeq("price", t.columns)
             /\ InSeq("carat", t.columns)
             /\ \A r \in rows : ~(carat[r].t \in {"int", "float"} /\ carat[r].i = 0 /\ carat[r].s = ""))
        THEN [raised |-> FALSE, df |-> t]
        ELSE IF DtypeOf(t, "price") # "object" /\ DtypeOf(t, "carat") # "object"
        THEN [raised |-> FALSE,
              df |-> SetTypedColumn(t, "price_per_carat", "float64",
                                    [r \in rows |-> IF both(r) THEN RoundedQuotient(price[r], carat[r]) ELSE NaNV])]
        ELSE IF \E r \in rows : both(r) /\ ~(IsNumber(price[r]) /\ IsNumber(carat[r]))
        THEN [raised |-> TRUE, df |-> t]
        ELSE [raised |-> FALSE,
              df |-> SetTypedColumn(t, "price_per_carat", "object",
                                    [r \in rows |-> IF both(r) THEN FloatRatio(price[r].i, carat[r].i) ELSE NaNV])]

\* The second step: if t has a column price_per_carat, the column high_price
\* = np.where(price_per_carat > 3500, 1, 0), an int64 column, is written into
\* it: 0 for a missing cell (NaN or None); a str cell makes the comparison
\* raise TypeError.
AddHighPrice(t) ==
    LET rows == 1..Len(t.data)
        per_carat == SeriesOf(t, "price_per_carat")
    IN  IF ~InSeq("price_per_carat", t.columns) THEN [raised |-> FALSE, df |-> t]
        ELSE IF \E r \in rows : per_carat[r].t \notin {"int", "float", "nan", "none"}
        THEN [raised |-> TRUE, df |-> t]
        ELSE [raised |-> FALSE,
              df |-> SetTypedColumn(t, "high_price", "int64",
                                    [r \in rows |->
                                        IF per_carat[r].t \in {"int", "float"}
                                           /\ (per_carat[r].i > 3500 \/ (per_carat[r].i = 3500 /\ per_carat[r].s # ""))
                                        THEN IntV(1) ELSE IntV(0)])]

\* _post_process_data on the table object df: the two steps write their
\* columns into df itself and the result is a copy of df; when a step raises,
\* the columns written so far are left in df.
post_process_data(h, df) ==
    Bind(AddPricePerCarat(h[df]), LAMBDA a :
        IF a.raised THEN Raised(h)
        ELSE Bind(AddHighPrice(a.df), LAMBDA b :
                 IF b.raised THEN Raised([h EXCEPT ![df] = a.df])
                 ELSE Returned(Append([h EXCEPT ![df] = b.df], b.df), Len(h) + 1)))

\* load_and_prepare_data: nothing for a loaded manager; else the table of
\* the source, post-processed, becomes _processed_df; if the source or the
\* post-processing raises, the manager is left unloaded and the exception
\* goes on.
load_and_prepare_data(h, m, source) ==
    IF m._is_loaded THEN [heap |-> h, mgr |-> m, raised |-> FALSE]
    ELSE IF ~source.ok THEN [heap |-> h, mgr |-> Manager(0, FALSE), raised |-> TRUE]
    ELSE LET h1 == Append(h, source.df)
             r == post_process_data(h1, Len(h1))
         IN  IF r.raised THEN [heap |-> r.heap, mgr |-> Manager(0, FALSE), raised |-> TRUE]
             ELSE [heap |-> r.heap, mgr |-> Manager(r.ret, TRUE), raised |-> FALSE]

\* A variant of default_data_manager that is marked as loaded before
\* startup and holds no table.
default_data_manager_Loaded == Manager(0, TRUE)

\* get_processed_df: RuntimeError for a manager that is not loaded, else a
\* copy of the stored table.
get_processed_df(h, m) ==
    IF ~m._is_loaded \/ m._processed_df = 0 THEN Raised(h)
    ELSE Returned(CopyFrame(h, m._processed_df), Len(h) + 1)

\* A data manager of the registry: its source_name, the source behind its
\* file_path, and its state.  NoManager is None where a manager is expected;
\* NoName is None where a dataset name is expected.
DataManager(source_name, source, m) == [source_name |-> source_name, source |-> source, m |-> m]
NoManager == [none |-> TRUE]

\* AVAILABLE_DATASETS is a dict in insertion order: a sequence of entries
\* [key, source] with distinct keys.
KeysOf(available) == {available[i].key : i \in 1..Len(available)}
SourceOf(available, key) == available[CHOOSE i \in 1..Len(available) : available[i].key = key].source

\* The outcome of a call of the registry: the heap, the two module
\* variables, the value returned and whether the call raised.
RegistryOutcome(h, active, name, ret, raised) ==
    [heap |-> h, _active_data_manager |-> active, _active_dataset_name |-> name, ret |-> ret, raised |-> raised]

\* A variant of load_dataset whose except branch resets the manager only.
load_dataset_KeepsName(h, available, active, name, dataset_key) ==
    IF dataset_key \notin KeysOf(available) THEN RegistryOutcome(h, active, name, FALSE, FALSE)
    ELSE LET source == SourceOf(available, dataset_key)
             r == load_and_prepare_data(h, Manager(0, FALSE), source)
         IN  IF r.raised THEN RegistryOutcome(r.heap, NoManager, name, FALSE, FALSE)
             ELSE RegistryOutcome(r.heap, DataManager(dataset_key, source, r.mgr), dataset_key, TRUE, FALSE)

\* A variant of load_dataset whose except branch leaves the active dataset
\* as it is.
load_dataset_KeepsActive(h, available, active, name, dataset_key) ==
    IF dataset_key \notin KeysOf(available) THEN RegistryOutcome(h, active, name, FALSE, FALSE)
    ELSE LET source == SourceOf(available, dataset_key)
             r == load_and_prepare_data(h, Manager(0, FALSE), source)
         IN  IF r.raised THEN RegistryOutcome(r.heap, active, name, FALSE, FALSE)
             ELSE RegistryOutcome(r.heap, DataManager(dataset_key, source, r.mgr), dataset_key, TRUE, FALSE)

\* load_dataset: False and nothing changed for a key that is not available;
\* else a new CSVDataManager for the key's file is loaded and becomes the
\* active one (True), or, if loading raises, both module variables become
\* None (False).
load_dataset(h, available, active, name, dataset_key) ==
    IF dataset_key \notin KeysOf(available) THEN RegistryOutcome(h, active, name, FALSE, FALSE)
    ELSE LET source == SourceOf(available, dataset_key)
             r == load_and_prepare_data(h, Manager(0, FALSE), source)
         IN  IF r.raised THEN RegistryOutcome(r.heap, NoManager, NoName, FALSE, FALSE)
             ELSE RegistryOutcome(r.heap, DataManager(dataset_key, source, r.mgr), dataset_key, TRUE, FALSE)

\* The manager of last resort: CSVDataManager(file_path=None,
\* df_override=pd.DataFrame(), source_name=...), then _is_loaded = True and
\* _processed_df = pd.DataFrame(), a second new object.
EmptyManager(h, source_name) ==
    LET h2 == Append(Append(h, EmptyFrame(<<>>)), EmptyFrame(<<>>))
    IN  RegistryOutcome(h2, DataManager(source_name, Unreadable, Manager(Len(h2), TRUE)), source_name,
                        DataManager(source_name, Unreadable, Manager(Len(h2), TRUE)), FALSE)

\* The default key: "diamonds" if available, else the first key, else none
\* ("").
DefaultKey(available) ==
    IF "diamonds" \in KeysOf(available) THEN "diamonds"
    ELSE IF available # <<>> THEN available[1].key
    ELSE ""

\* A variant of get_active_data_manager without the empty manager for a
\* default dataset that fails to load.
get_active_data_manager_NoFallback(h, available, active, name) ==
    IF active # NoManager THEN RegistryOutcome(h, active, name, active, FALSE)
    ELSE IF DefaultKey(available) # ""
    THEN LET r == load_dataset(h, available, active, name, DefaultKey(available))
         IN  IF r._active_data_manager = NoManager
             THEN RegistryOutcome(r.heap, NoManager, r._active_dataset_name, NoManager, TRUE)
             ELSE RegistryOutcome(r.heap, r._active_data_manager, r._active_dataset_name,
                                  r._active_data_manager, FALSE)
    ELSE EmptyManager(h, "empty_no_datasets")

\* get_active_data_manager: the active manager; if there is none, the default
\* dataset is loaded, or an empty manager is made when that fails or there
\* is no dataset; RuntimeError if there is still no active manager.
get_active_data_manager(h, available, active, name) ==
    IF active # NoManager THEN RegistryOutcome(h, active, name, active, FALSE)
    ELSE IF DefaultKey(available) # ""
    THEN LET r == load_dataset(h, available, active, name, DefaultKey(available))
         IN  IF ~r.ret THEN EmptyManager(r.heap, "empty_fallback")
             ELSE IF r._active_data_manager = NoManager
             THEN RegistryOutcome(r.heap, NoManager, r._active_dataset_name, NoManager, TRUE)
             ELSE RegistryOutcome(r.heap, r._active_data_manager, r._active_dataset_name,
                                  r._active_data_manager, FALSE)
    ELSE EmptyManager(h, "empty_no_datasets")

\* ---------------------------------------------------------------- state
VARIABLES
    heap,             \* the DataFrame objects
    base_df,          \* the object handed to get_shaped_dataframe
    include_columns,  \* the request's include list
    exclude_columns,  \* the request's exclude list
    pc,               \* "start", "shaped" (after one call), "reshaped" (after a second call on the result)
    ret,              \* the object the first call returned (0: none)
    ret2,             \* the object the second call returned (0: none)
    raised,           \* a call raised
    input0,           \* the contents of base_df before the first call
    table,            \* the table a handler is about to encode
    wire,             \* the split form in the response, <<>> before the response
    index_level_names,\* the level names the dashboard passes to the decoder
    categorical_cols, \* the dashboard's list of categorical columns
    shown,            \* what the dashboard displayed
    cpc,              \* "table", "sent", "dashboard" or "new_dashboard"
    store,            \* the DataFrame objects of the API process
    mgr,              \* the data manager
    source,           \* what the manager's data source holds
    loaded0,          \* the stored table right after it was loaded
    req,              \* the requests in progress, one per slot
    rdf,              \* per slot, the object get_dataframe_dependency returned (0: none)
    resp,             \* per slot, the response
    rpc,              \* per slot, "new", "ready" (dependency resolved) or "done"
    served,           \* the number of requests answered and replaced by the next one
    dheap,            \* the DataFrame objects around a Descriptive instance
    self_data,        \* the instance's data
    self_class,       \* the class of the instance: "Descriptive" or "Diamonds"
    filter_col,       \* data_filter's list of columns
    filter_value,     \* data_filter's list of values
    fret,             \* the object data_filter returned (0: none)
    fexc,             \* the exception data_filter raised ("": none)
    fpc,              \* "start" or "done"
    data0,            \* the contents of the instance's data when data_filter was called
    plot_call,        \* the arguments of handle_generate_dashboard_plot
    df_to_process,    \* the shaped table
    axes_flat,        \* the axes of the figure (<<>>: no figure)
    plotted_count,    \* the handler's counter
    plot_i,           \* the loop's index i: the configurations before it have been handled
    skipped,          \* the 'not enough axes' branch was taken
    plot_ret,         \* "": no return yet, "None" or "image"
    ppc,              \* "start", "loop", "after" (the loop is over) or "done"
    rheap,            \* the DataFrame objects of the registry's process
    AVAILABLE_DATASETS,   \* the datasets discovered at import
    _active_data_manager, \* the module's active manager
    _active_dataset_name, \* the module's active dataset name
    reg_call,         \* the last call: [fn, key]
    reg_ret,          \* what the last call returned: [ret, raised]
    before,           \* the two module variables before the last call
    ncalls            \* the number of calls made

shapeVars == <<heap, base_df, include_columns, exclude_columns, pc, ret, ret2, raised, input0>>
codecVars == <<table, wire, index_level_names, categorical_cols, shown, cpc>>
apiVars == <<store, mgr, source, loaded0, req, rdf, resp, rpc, served>>
filterVars == <<dheap, self_data, self_class, filter_col, filter_value, fret, fexc, fpc, data0>>
plotVars == <<plot_call, df_to_process, axes_flat, plotted_count, plot_i, skipped, plot_ret, ppc>>
registryVars == <<rheap, AVAILABLE_DATASETS, _active_data_manager, _active_dataset_name,
                  reg_call, reg_ret, before, ncalls>>
moreVars == <<filterVars, plotVars, registryVars>>
vars == <<heap, base_df, include_columns, exclude_columns, pc, ret, ret2, raised, input0,
          table, wire, index_level_names, categorical_cols, shown, cpc,
          store, mgr, source, loaded0, req, rdf, resp, rpc, served,
          dheap, self_data, self_class, filter_col, filter_value, fret, fexc, fpc, data0,
          plot_call, df_to_process, axes_flat, plotted_count, plot_i, skipped, plot_ret, ppc,
          rheap, AVAILABLE_DATASETS, _active_data_manager, _active_dataset_name,
          reg_call, reg_ret, before, ncalls>>

\* The shaper at rest, for the specifications that do not run it.
ShapeIdle ==
    /\ heap = <<EmptyFrame(<<>>)>>
    /\ input0 = EmptyFrame(<<>>)
    /\ base_df = 1
    /\ include_columns = None
    /\ exclude_columns = None
    /\ pc = "idle"
    /\ ret = 0
    /\ ret2 = 0
    /\ raised = FALSE

\* The codec at rest, for the specifications that do not run it.
CodecIdle ==
    /\ table = EmptyFrame(<<>>)
    /\ wire = <<>>
    /\ index_level_names = None
    /\ categorical_cols = {}
    /\ shown = NotShown
    /\ cpc = "idle"

\* The API at rest, for the specifications that do not run it.
ApiIdle ==
    /\ store = <<>>
    /\ mgr = Manager(0, FALSE)
    /\ source = Unreadable
    /\ loaded0 = EmptyFrame(<<>>)
    /\ req = <<>>
    /\ rdf = <<>>
    /\ resp = <<>>
    /\ rpc = <<>>
    /\ served = 0

\* A Descriptive instance at rest, for the specifications that do not call
\* data_filter.
FilterIdle ==
    /\ dheap = <<>>
    /\ self_data = 0
    /\ self_class = ""
    /\ filter_col = <<>>
    /\ filter_value = <<>>
    /\ fret = 0
    /\ fexc = ""
    /\ fpc = "idle"
    /\ data0 = EmptyFrame(<<>>)

\* No call of handle_generate_dashboard_plot in progress.
PlotIdle ==
    /\ plot_call = [base_df |-> EmptyFrame(<<>>), plot_configurations |-> <<>>,
                    include_columns |-> None, exclude_columns |-> None, savefig |-> "saves"]
    /\ df_to_process = EmptyFrame(<<>>)
    /\ axes_flat = <<>>
    /\ plotted_count = 0
    /\ plot_i = 0
    /\ skipped = FALSE
    /\ plot_ret = ""
    /\ ppc = "idle"

\* The registry before its module is imported.
RegistryIdle ==
    /\ rheap = <<>>
    /\ AVAILABLE_DATASETS = <<>>
    /\ _active_data_manager = NoManager
    /\ _active_dataset_name = NoName
    /\ reg_call = [fn |-> "", key |-> ""]
    /\ reg_ret = [ret |-> FALSE, raised |-> FALSE]
    /\ before = [_active_data_manager |-> NoManager, _active_dataset_name |-> NoName]
    /\ ncalls = 0

MoreIdle == FilterIdle /\ PlotIdle /\ RegistryIdle

\* Tables as loaded from a CSV: unique column names, a RangeIndex.
LoadedTables ==
    {[columns |-> cols, index |-> RangeIndex(Len(d)), names |-> <<NoName>>, data |-> d, dtypes |-> {}] :
        cols \in {c \in SeqsUpTo(ColNames, MaxCols) : IsUnique(c)},
        d \in SeqsUpTo(SeqsUpTo(Cells, MaxCols), MaxRows)}

ValidLoadedTables ==
    {t \in LoadedTables : \A r \in 1..Len(t.data) : Len(t.data[r]) = Len(t.columns)}

ColumnLists == {None} \cup {Some(l) : l \in SeqsUpTo(ColNames, MaxListLen)}

InitShape ==
    /\ MoreIdle
    /\ \E t \in ValidLoadedTables : heap = <<t>> /\ input0 = t
    /\ base_df = 1
    /\ include_columns \in ColumnLists
    /\ exclude_columns \in ColumnLists
    /\ pc = "start"
    /\ ret = 0
    /\ ret2 = 0
    /\ raised = FALSE
    /\ CodecIdle
    /\ ApiIdle

\* A handler shapes the loaded table.
ShapeCall ==
    /\ pc = "start"
    /\ LET r == get_shaped_dataframe(heap, base_df, include_columns, exclude_columns)
       IN  /\ heap' = r.heap
           /\ ret' = r.ret
           /\ raised' = r.raised
    /\ pc' = "shaped"
    /\ UNCHANGED <<base_df, include_columns, exclude_columns, ret2, input0>>
    /\ UNCHANGED codecVars
    /\ UNCHANGED apiVars
    /\ UNCHANGED moreVars

\* The shaped table is shaped again with the same include/exclude pair.
ReshapeCall ==
    /\ pc = "shaped"
    /\ ~raised
    /\ LET r == get_shaped_dataframe(heap, ret, include_columns, exclude_columns)
       IN  /\ heap' = r.heap
           /\ ret2' = r.ret
           /\ raised' = r.raised
    /\ pc' = "reshaped"
    /\ UNCHANGED <<base_df, include_columns, exclude_columns, ret, input0>>
    /\ UNCHANGED codecVars
    /\ UNCHANGED apiVars
    /\ UNCHANGED moreVars

NextShape == ShapeCall \/ ReshapeCall

SpecShape == InitShape /\ [][NextShape]_vars

\* ---------------------------------------------------------------- codec: state machine
\* The tables a handler encodes: unique column names, at least one column,
\* an index of 1..MaxLevels levels, its levels all named (as pd.crosstab
\* names them after the index columns) or all unnamed.  The last cell of the
\* first column may be missing (NaN or None).
LevelName(l) == "level" \o IntToStr(l)
NamedLevels(k) == [l \in 1..k |-> LevelName(l)]
UnnamedLevels(k) == [l \in 1..k |-> NoName]
ColumnPrefix(k) == [j \in 1..k |-> CASE j = 1 -> "a" [] j = 2 -> "b" [] OTHER -> "c"]
CategoricalChoices == {{}, {"a"}}

\* The index_level_names a caller can pass for table t: none, the names of
\* t, or a list of 0..MaxLevels names.
LevelNameLists(t) ==
    {None, Some(t.names)} \cup {Some(NamedLevels(k)) : k \in 0..MaxLevels}

InitCodec ==
    /\ MoreIdle
    /\ ShapeIdle
    /\ \E c \in 1..MaxCols, k \in 1..MaxLevels, n \in 0..MaxRows :
         \E nm \in {NamedLevels(k), UnnamedLevels(k)},
            idx \in [1..n -> [1..k -> Cells]],
            d \in [1..n -> [1..c -> Cells]], last \in Cells \cup {NaNV, NoneV} :
               table = [columns |-> ColumnPrefix(c), index |-> idx, names |-> nm,
                        data |-> [r \in 1..n |-> [j \in 1..c |->
                                     IF r = n /\ j = 1 THEN last ELSE d[r][j]]],
                        dtypes |-> {}]
    /\ index_level_names \in LevelNameLists(table)
    /\ categorical_cols \in CategoricalChoices
    /\ wire = <<>>
    /\ shown = NotShown
    /\ cpc = "table"
    /\ ApiIdle

\* handle_frequency_table / handle_cross_tabs / handle_*_summary return
\* to_dict("split") of their table and the endpoint sends it as JSON.
Encode ==
    /\ cpc = "table"
    /\ wire' = <<ToJson(to_dict_split(table))>>
    /\ cpc' = "sent"
    /\ UNCHANGED <<table, index_level_names, categorical_cols, shown>>
    /\ UNCHANGED shapeVars
    /\ UNCHANGED apiVars
    /\ UNCHANGED moreVars

\* dashboard.py displays the response.
DisplayDashboard ==
    /\ cpc = "sent"
    /\ shown' = display_df_from_api_split_response(wire[1], index_level_names, categorical_cols, FALSE)
    /\ cpc' = "dashboard"
    /\ UNCHANGED <<table, wire, index_level_names, categorical_cols>>
    /\ UNCHANGED shapeVars
    /\ UNCHANGED apiVars
    /\ UNCHANGED moreVars

\* new_dashboard.py displays the response.
DisplayNewDashboard ==
    /\ cpc = "sent"
    /\ shown' = display_df_from_api_split_response(wire[1], index_level_names, categorical_cols, TRUE)
    /\ cpc' = "new_dashboard"
    /\ UNCHANGED <<table, wire, index_level_names, categorical_cols>>
    /\ UNCHANGED shapeVars
    /\ UNCHANGED apiVars
    /\ UNCHANGED moreVars

NextCodec == Encode \/ DisplayDashboard \/ DisplayNewDashboard

SpecCodec == InitCodec /\ [][NextCodec]_vars

\* ---------------------------------------------------------------- decoder: state machine
\* The dashboard decodes whatever JSON object the response carries.  The
\* "index" array holds scalars (an int, a str, a float or null) and arrays
\* of 0..MaxLevels scalars, its entries after the first all alike; the
\* "data" array holds rows of 0..MaxCols cells, the last row of any length
\* and the rows before it of one length; the cells are ints, or strs, or
\* null, or ints in the odd rows and floats in the even rows.  Each array
\* has up to MaxWireRows entries, and nothing ties their lengths to each
\* other or to "columns".  An incomplete response is an object without
\* entries, or with null for one of its three keys.
WireIndexItems ==
    {JScalar(c) : c \in Cells \cup {NoneV, Float2(0, "5")}}
    \cup {JList([l \in 1..k |-> IF l % 2 = 1 THEN StrV("E") ELSE IntV(1)]) : k \in 0..MaxLevels}
    \cup {JList(<<StrV("E"), FloatV(1)>>)}
WireIndexes(n) ==
    IF n = 0 THEN {<<>>}
    ELSE {[i \in 1..n |-> IF i = 1 THEN x[1] ELSE x[2]] : x \in WireIndexItems \X WireIndexItems}
WireRows(m) ==
    LET cell(kind, r) == CASE kind = "int" -> IntV(1)
                           [] kind = "str" -> StrV("E")
                           [] kind = "null" -> NoneV
                           [] OTHER -> IF r % 2 = 1 THEN IntV(1) ELSE Float2(0, "5")
    IN  {[r \in 1..m |-> [j \in 1..(IF r < m THEN w[1] ELSE w[2]) |-> cell(kind, r)]] :
            w \in (0..MaxCols) \X (0..MaxCols), kind \in {"int", "str", "null", "mixed"}}
WireLevelNames == {None, Some(<<"<str>", LevelName(1)>>)} \cup {Some(NamedLevels(k)) : k \in 0..MaxLevels}

InitDecode ==
    /\ MoreIdle
    /\ ShapeIdle
    /\ table = EmptyFrame(<<>>)
    /\ \/ \E c \in 0..MaxCols, n \in 0..MaxWireRows, m \in 0..MaxWireRows :
            \E idx \in WireIndexes(n), d \in WireRows(m) :
               wire = <<[index |-> idx, columns |-> ColumnPrefix(c), data |-> d, incomplete |-> ""]>>
       \/ \E k \in {"{}", "index", "columns", "data"} :
            wire = <<[index |-> <<>>, columns |-> <<>>, data |-> <<>>, incomplete |-> k]>>
    /\ index_level_names \in WireLevelNames
    /\ categorical_cols \in CategoricalChoices
    /\ shown = NotShown
    /\ cpc = "sent"
    /\ ApiIdle

NextDecode == DisplayDashboard \/ DisplayNewDashboard

SpecDecode == InitDecode /\ [][NextDecode]_vars

\* ---------------------------------------------------------------- api: state machine
\* The tables a data source holds: columns a, b, ..., a RangeIndex, and no
\* rows without columns.
SourceTable(c, d) ==
    [columns |-> ColumnPrefix(c), index |-> RangeIndex(Len(d)), names |-> <<NoName>>, data |-> d, dtypes |-> {}]

\* A table of named columns, as pd.read_csv gives it.
NamedTable(cols, d) ==
    [columns |-> cols, index |-> RangeIndex(Len(d)), names |-> <<NoName>>, data |-> d, dtypes |-> {}]

\* The tables of columns a, b, ...; the first cell of the last row may be
\* missing (NaN, as pd.read_csv reads an empty field).
LetterTables ==
    UNION {{SourceTable(c, d) :
               d \in {d \in [1..n -> [1..c -> Cells \cup {NaNV}]] :
                         \A r \in 1..n : \A j \in 1..c : d[r][j] = NaNV => (r = n /\ j = 1)}} :
           c \in 1..MaxCols, n \in 0..MaxRows}
    \cup {SourceTable(0, <<>>)}

\* The tables a data source holds: the tables of columns a, b, ...; tables
\* of a price and a carat column, as the diamonds dataset has them, the carat
\* of a row 2, 40, 0, not a number or missing, the price a number or
\* missing; tables of a price_per_carat column alone.
SourceTables ==
    LetterTables
    \cup UNION {{NamedTable(<<"price", "carat">>, d) :
                   d \in [1..n -> {<<IntV(8000), IntV(2)>>, <<IntV(1), IntV(2)>>, <<IntV(23), IntV(40)>>,
                                   <<IntV(1), IntV(0)>>, <<IntV(1), StrV("E")>>,
                                   <<NaNV, IntV(2)>>, <<IntV(1), NaNV>>, <<NaNV, StrV("E")>>,
                                   <<IntV(1), NoneV>>}]} : n \in 0..MaxRows}
    \cup UNION {{NamedTable(<<"price_per_carat">>, d) :
                   d \in [1..n -> {<<IntV(4000)>>, <<StrV("E")>>, <<NaNV>>, <<NoneV>>}]} : n \in 0..MaxRows}

\* The include/exclude pairs of a request.  A list parameter of an endpoint
\* is Query(None): absent, or a list of at least one name, in which a name
\* may be repeated.
Shapings ==
    {<<None, None>>, <<Some(<<"a">>), None>>, <<Some(<<"c">>), None>>, <<Some(<<"b", "a">>), None>>,
     <<Some(<<"a", "a">>), None>>,
     <<None, Some(<<"a">>)>>, <<None, Some(<<"c">>)>>, <<Some(<<"a">>), Some(<<"a">>)>>}

\* Plot configurations: a histogram of column a or c that seaborn draws, one
\* that it fails to draw, a plot type the handler does not know, and a
\* crosstab heatmap whose method returns without a plot.
PlotConfigs ==
    {[type |-> "histogram", col_name |-> "a", effect |-> "draws"],
     [type |-> "histogram", col_name |-> "a", effect |-> "raises"],
     [type |-> "histogram", col_name |-> "c", effect |-> "draws"],
     [type |-> "pie", col_name |-> "a", effect |-> "draws"],
     [type |-> "crosstab_heatmap", col_name |-> "", effect |-> "returns"]}

ShapeRequests == {Request("shape", s[1], s[2]) : s \in Shapings}
FrequencyRequests ==
    {[Request("frequency-table", s[1], s[2]) EXCEPT !.column_name = c] : s \in Shapings, c \in ColNames}
\* Filter conditions: as many values as columns, or one value more.
FilterConditions ==
    UNION {[cols : [1..n -> ColNames],
            values : [1..n -> Cells] \cup {Append(v, IntV(1)) : v \in [1..n -> Cells]}] :
           n \in 0..MaxListLen}
\* The include/exclude pairs of the requests that take further lists.
FewShapings == {<<None, None>>, <<Some(<<"a">>), None>>, <<Some(<<"c">>), None>>, <<None, Some(<<"a">>)>>}
FilterRequests ==
    {[Request("filter", s[1], s[2]) EXCEPT !.filter_cols = f.cols, !.filter_values = f.values] :
        s \in FewShapings, f \in FilterConditions}
DashboardPlotRequests ==
    UNION {{[Request("plots/dashboard", s[1], s[2]) EXCEPT !.payload = p, !.savefig = f] :
               p \in [1..n -> PlotConfigs], f \in IF n = 0 THEN {"saves"} ELSE {"saves", "raises"}} :
           s \in FewShapings, n \in 0..MaxListLen}
DisplotRequests ==
    {[Request("plots/displot", s[1], s[2]) EXCEPT !.column_name = c, !.hue_col = hue, !.draws = d] :
        s \in Shapings, c \in {"a", "c"}, hue \in {"", "b"}, d \in BOOLEAN}
SummaryRequests ==
    {Request(k, s[1], s[2]) :
        k \in {"unique-counts", "info", "numerical-summary", "categorical-summary"}, s \in Shapings}
\* CrossTabRequest: two lists of names, either of which may be empty.
CrossTabRequests ==
    {[Request("cross-tabs", s[1], s[2]) EXCEPT
         !.index_names = i, !.columns_names = c, !.normalize = n, !.margins = m] :
        s \in FewShapings, i \in {<<>>, <<"a">>, <<"a", "b">>, <<"c">>}, c \in {<<>>, <<"b">>, <<"a">>, <<"c">>},
        n \in BOOLEAN, m \in BOOLEAN}
Requests == ShapeRequests \cup SummaryRequests \cup FrequencyRequests \cup CrossTabRequests
                \cup FilterRequests \cup DashboardPlotRequests \cup DisplotRequests

\* One request of every endpoint, for the specifications that run several
\* requests.
FewRequests ==
    {Request("shape", None, None), Request("shape", None, Some(<<"a">>)),
     Request("unique-counts", None, None), Request("info", None, None),
     Request("numerical-summary", None, None), Request("categorical-summary", None, None),
     [Request("cross-tabs", None, None) EXCEPT !.index_names = <<"a">>, !.columns_names = <<"b">>,
                                               !.margins = TRUE],
     [Request("cross-tabs", None, None) EXCEPT !.index_names = <<"price">>, !.columns_names = <<"carat">>],
     Request("filter", None, None),
     [Request("frequency-table", None, None) EXCEPT !.column_name = "a"],
     [Request("frequency-table", Some(<<"b", "a">>), None) EXCEPT !.column_name = "a"],
     [Request("filter", None, Some(<<"a">>)) EXCEPT !.filter_cols = <<"a">>, !.filter_values = <<StrV("E")>>],
     [Request("plots/dashboard", None, None) EXCEPT
         !.payload = <<[type |-> "histogram", col_name |-> "a", effect |-> "draws"]>>],
     [Request("plots/displot", Some(<<"a">>), None) EXCEPT !.column_name = "a", !.draws = TRUE]}

\* A few of the tables a data source holds, for the specifications that run
\* several requests: with and without rows, with a missing cell, with the
\* columns the post-processing reads.
FewTables ==
    {SourceTable(2, <<<<StrV("E"), IntV(1)>>>>), SourceTable(2, <<<<NaNV, StrV("E")>>>>), SourceTable(1, <<>>),
     NamedTable(<<"price", "carat">>, <<<<IntV(8000), IntV(2)>>>>),
     NamedTable(<<"price", "carat">>, <<<<NaNV, StrV("E")>>>>),
     NamedTable(<<"price", "carat">>, <<<<IntV(1), StrV("E")>>>>),
     NamedTable(<<"price_per_carat">>, <<<<NoneV>>>>)}

\* The manager main.py imports from api_data_manager under the name
\* default_data_manager: a data manager of the dataset, not loaded before
\* startup.
default_data_manager == Manager(0, FALSE)

\* The table a manager holds; the table without columns stands for None.
StoredTable(h, m) == IF m._processed_df = 0 THEN EmptyFrame(<<>>) ELSE h[m._processed_df]

\* A served table: lifespan startup has loaded the manager from a source
\* holding table t.
LoadedManager(t) ==
    LET r == load_and_prepare_data(<<>>, default_data_manager, Readable(t))
    IN  /\ ~r.raised
        /\ store = r.heap
        /\ mgr = r.mgr
        /\ source = Readable(t)
        /\ loaded0 = StoredTable(r.heap, r.mgr)
        /\ served = 0

NewSlots(n) ==
    /\ rdf = [i \in 1..n |-> 0]
    /\ resp = [i \in 1..n |-> NoResponse]
    /\ rpc = [i \in 1..n |-> "new"]

\* One request to a loaded API: any request if the columns of the table
\* are a, b, ..., and one request of every endpoint for the other tables.
InitApi ==
    /\ MoreIdle
    /\ ShapeIdle
    /\ CodecIdle
    /\ \E t \in SourceTables :
         /\ LoadedManager(t)
         /\ \E q \in IF t \in LetterTables THEN Requests ELSE FewRequests : req = <<q>>
    /\ NewSlots(1)

\* A manager before startup, its source readable or not, and one request.
InitManager ==
    /\ MoreIdle
    /\ ShapeIdle
    /\ CodecIdle
    /\ store = <<>>
    /\ mgr = default_data_manager
    /\ loaded0 = EmptyFrame(<<>>)
    /\ served = 0
    /\ \/ source = Unreadable
       \/ \E t \in FewTables : source = Readable(t)
    /\ \E q \in FewRequests : req = <<q>>
    /\ NewSlots(1)

\* Two requests in progress at a loaded API.
InitConcurrent ==
    /\ MoreIdle
    /\ ShapeIdle
    /\ CodecIdle
    /\ \E t \in FewTables : LoadedManager(t)
    /\ \E q1, q2 \in FewRequests : req = <<q1, q2>>
    /\ NewSlots(2)

\* lifespan startup, or any later call of load_and_prepare_data; the objects
\* of a call that raised are dropped with its frame.
Load ==
    /\ \E r \in {load_and_prepare_data(store, mgr, source)} :
           /\ store' = IF r.raised THEN store ELSE r.heap
           /\ mgr' = r.mgr
           /\ loaded0' = IF ~mgr._is_loaded /\ r.mgr._is_loaded
                         THEN StoredTable(r.heap, r.mgr) ELSE loaded0
    /\ UNCHANGED <<source, req, rdf, resp, rpc, served>>
    /\ UNCHANGED shapeVars
    /\ UNCHANGED codecVars
    /\ UNCHANGED moreVars

\* The file behind the source is rewritten without its rows, or becomes
\* unreadable.
SourceChanges ==
    /\ \E s \in {Unreadable, Readable(EmptyFrame(source.df.columns))} :
         /\ s # source
         /\ source' = s
    /\ UNCHANGED <<store, mgr, loaded0, req, rdf, resp, rpc, served>>
    /\ UNCHANGED shapeVars
    /\ UNCHANGED codecVars
    /\ UNCHANGED moreVars

\* get_dataframe_dependency for the request in slot i: a copy of the stored
\* table, or HTTP 503 if the manager is not loaded.
GetDataframe(i) ==
    /\ rpc[i] = "new"
    /\ LET r == get_processed_df(store, mgr)
       IN  IF r.raised
           THEN /\ resp' = [resp EXCEPT ![i] = Result(503, "error")]
                /\ rpc' = [rpc EXCEPT ![i] = "done"]
                /\ UNCHANGED <<store, rdf>>
           ELSE /\ store' = r.heap
                /\ rdf' = [rdf EXCEPT ![i] = r.ret]
                /\ rpc' = [rpc EXCEPT ![i] = "ready"]
                /\ UNCHANGED resp
    /\ UNCHANGED <<mgr, source, loaded0, req, served>>
    /\ UNCHANGED shapeVars
    /\ UNCHANGED codecVars
    /\ UNCHANGED moreVars

\* The endpoint of the request in slot i runs on the event loop, from its
\* first line to its response; the objects it created are dropped with its
\* frame.
Handle(i) ==
    /\ rpc[i] = "ready"
    /\ \E e \in {Endpoint(store, rdf[i], req[i])} :
         /\ store' = SubSeq(e.heap, 1, Len(store))
         /\ resp' = [resp EXCEPT ![i] = e.resp]
    /\ rpc' = [rpc EXCEPT ![i] = "done"]
    /\ UNCHANGED <<mgr, source, loaded0, req, rdf, served>>
    /\ UNCHANGED shapeVars
    /\ UNCHANGED codecVars
    /\ UNCHANGED moreVars

\* The client of slot i sends its request again.
NextRequest(i) ==
    /\ rpc[i] = "done"
    /\ served < MaxServed
    /\ served' = served + 1
    /\ rpc' = [rpc EXCEPT ![i] = "new"]
    /\ rdf' = [rdf EXCEPT ![i] = 0]
    /\ resp' = [resp EXCEPT ![i] = NoResponse]
    /\ UNCHANGED <<store, mgr, source, loaded0, req>>
    /\ UNCHANGED shapeVars
    /\ UNCHANGED codecVars
    /\ UNCHANGED moreVars

NextApi == \E i \in 1..Len(req) : GetDataframe(i) \/ Handle(i)

SpecApi == InitApi /\ [][NextApi]_vars

NextManager == Load \/ SourceChanges \/ \E i \in 1..Len(req) : GetDataframe(i) \/ Handle(i) \/ NextRequest(i)

SpecManager == InitManager /\ [][NextManager]_vars

SpecConcurrent == InitConcurrent /\ [][NextApi]_vars

\* ---------------------------------------------------------------- data_filter: state machine
\* The tables of a Descriptive instance: unique column names, a RangeIndex,
\* up to MaxFilterRows rows; and tables of one object column in which a cell
\* is a str or None.
FilterTables ==
    UNION {{SourceTable(c, d) : d \in [1..n -> [1..c -> Cells]]} :
           c \in 0..MaxCols, n \in 0..MaxFilterRows}
    \cup UNION {{SourceTable(1, d) : d \in [1..n -> {<<NoneV>>, <<StrV("E")>>}]} : n \in 1..MaxFilterRows}

\* The data of a Diamonds instance, sns.load_dataset('diamonds'): rows of a
\* carat (a float, not 0) and a price (an int); one of the rows has the
\* quotient 23 / 40, which is halfway between two hundredths.
DiamondsTables ==
    UNION {{NamedTable(<<"carat", "price">>, d) :
               d \in [1..n -> {<<k, p>> : k \in {FloatV(1), FloatV(2)}, p \in {IntV(1), IntV(8000)}}
                              \cup {<<FloatV(40), IntV(23)>>}]} :
           n \in 1..MaxFilterRows}

\* Conditions on the columns of a Diamonds instance: on the price, on the
\* carat given as an int, on both, and on the column price_per_carat makes.
DiamondsConditions ==
    {[cols |-> <<"price">>, values |-> <<IntV(8000)>>],
     [cols |-> <<"carat">>, values |-> <<IntV(2)>>],
     [cols |-> <<"carat", "price">>, values |-> <<FloatV(2), IntV(1)>>],
     [cols |-> <<"price_per_carat">>, values |-> <<FloatV(4000)>>],
     [cols |-> <<"price_per_carat">>, values |-> <<Float2(0, "5")>>],
     [cols |-> <<"price_per_carat">>, values |-> <<Float2(0, "57")>>]}

\* Descriptive(data) or Diamonds(), and the arguments of one call of
\* data_filter with two lists; one of the conditions asks for None.
InitFilter ==
    /\ ShapeIdle
    /\ CodecIdle
    /\ ApiIdle
    /\ PlotIdle
    /\ RegistryIdle
    /\ \/ \E t \in FilterTables :
            /\ dheap = <<t>>
            /\ data0 = t
            /\ self_class = "Descriptive"
       \/ \E t \in DiamondsTables :
            /\ dheap = <<t>>
            /\ data0 = t
            /\ self_class = "Diamonds"
    /\ self_data = 1
    /\ \E f \in FilterConditions \cup {[cols |-> <<"a">>, values |-> <<NoneV>>]}
                \cup (IF self_class = "Diamonds" THEN DiamondsConditions ELSE {}) :
         /\ filter_col = f.cols
         /\ filter_value = f.values
    /\ fret = 0
    /\ fexc = ""
    /\ fpc = "start"

\* des_instance.data_filter(col, value): the result is a new object (loc, or
\* copy for empty lists).
DataFilter ==
    /\ fpc = "start"
    /\ LET r == data_filter(dheap[self_data], filter_col, filter_value)
       IN  IF r.ok
           THEN /\ dheap' = Append(dheap, r.df)
                /\ fret' = Len(dheap) + 1
                /\ fexc' = ""
           ELSE /\ fexc' = "ValueError"
                /\ UNCHANGED <<dheap, fret>>
    /\ fpc' = "done"
    /\ data0' = dheap[self_data]
    /\ UNCHANGED <<self_data, self_class, filter_col, filter_value>>
    /\ UNCHANGED shapeVars
    /\ UNCHANGED codecVars
    /\ UNCHANGED apiVars
    /\ UNCHANGED plotVars
    /\ UNCHANGED registryVars

\* Diamonds.price_per_carat(), before or after the call of data_filter: the
\* instance's data gets the column in place and is returned itself.
PricePerCarat ==
    /\ self_class = "Diamonds"
    /\ dheap' = [dheap EXCEPT ![self_data] = price_per_carat(dheap[self_data])]
    /\ UNCHANGED <<self_data, self_class, filter_col, filter_value, fret, fexc, fpc, data0>>
    /\ UNCHANGED shapeVars
    /\ UNCHANGED codecVars
    /\ UNCHANGED apiVars
    /\ UNCHANGED plotVars
    /\ UNCHANGED registryVars

NextFilter == DataFilter \/ PricePerCarat

SpecFilter == InitFilter /\ [][NextFilter]_vars

\* ---------------------------------------------------------------- dashboard plot: state machine
\* The include/exclude pairs of a call: none, an include list that matches no
\* column, an exclude list.
PlotShapings == {<<None, None>>, <<Some(<<"c">>), None>>, <<None, Some(<<"b">>)>>}

\* The lists of configurations of a call: every list of up to MaxPlots
\* configurations, and longer lists of one configuration repeated, up to
\* MaxGridPlots.
PlotConfigLists ==
    UNION {[1..n -> PlotConfigs] : n \in 0..MaxPlots}
        \cup {[j \in 1..n |-> c] : n \in (MaxPlots + 1)..MaxGridPlots, c \in PlotConfigs}

InitPlot ==
    /\ ShapeIdle
    /\ CodecIdle
    /\ ApiIdle
    /\ FilterIdle
    /\ RegistryIdle
    /\ \E c \in 0..MaxCols, n \in 0..MaxRows :
         /\ c = 0 => n = 0
         /\ \E d \in [1..n -> [1..c -> Cells]], s \in PlotShapings, l \in PlotConfigLists :
              \E f \in {"saves", "raises"} :
                 plot_call = [base_df |-> SourceTable(c, d), plot_configurations |-> l,
                              include_columns |-> s[1], exclude_columns |-> s[2], savefig |-> f]
    /\ df_to_process = EmptyFrame(<<>>)
    /\ axes_flat = <<>>
    /\ plotted_count = 0
    /\ plot_i = 0
    /\ skipped = FALSE
    /\ plot_ret = ""
    /\ ppc = "start"

\* handle_generate_dashboard_plot up to the loop: the table is shaped; None
\* for a table emptied by a given list and for no configurations; else the
\* figure with its grid of axes.
PlotBegin ==
    /\ ppc = "start"
    /\ LET r == get_shaped_dataframe(<<plot_call.base_df>>, 1, plot_call.include_columns, plot_call.exclude_columns)
           shaped == r.heap[r.ret]
           num_plots == Len(plot_call.plot_configurations)
       IN  /\ df_to_process' = shaped
           /\ IF \/ IsEmpty(shaped) /\ (Truthy(plot_call.include_columns) \/ Truthy(plot_call.exclude_columns))
                 \/ num_plots = 0
              THEN /\ plot_ret' = "None"
                   /\ ppc' = "done"
                   /\ UNCHANGED axes_flat
              ELSE /\ axes_flat' = AxesFlat(GridOf(num_plots).nrows, GridOf(num_plots).ncols)
                   /\ ppc' = "loop"
                   /\ UNCHANGED plot_ret
    /\ UNCHANGED <<plot_call, plotted_count, plot_i, skipped>>
    /\ UNCHANGED shapeVars
    /\ UNCHANGED codecVars
    /\ UNCHANGED apiVars
    /\ UNCHANGED filterVars
    /\ UNCHANGED registryVars

\* One pass of the loop, for the configuration at index plot_i.
PlotConfiguration ==
    /\ ppc = "loop"
    /\ plot_i < Len(plot_call.plot_configurations)
    /\ LET pass == LoopPass(axes_flat, plotted_count, plot_i,
                            plot_call.plot_configurations[plot_i + 1], df_to_process)
       IN  /\ axes_flat' = pass.axes_flat
           /\ plotted_count' = pass.plotted_count
           /\ plot_i' = pass.i
           /\ skipped' = (skipped \/ (pass.break /\ plot_i >= Len(axes_flat)))
           /\ ppc' = IF pass.break THEN "after" ELSE "loop"
    /\ UNCHANGED <<plot_call, df_to_process, plot_ret>>
    /\ UNCHANGED shapeVars
    /\ UNCHANGED codecVars
    /\ UNCHANGED apiVars
    /\ UNCHANGED filterVars
    /\ UNCHANGED registryVars

\* After the loop: None if the counter is 0; else the axes from the counter
\* on are hidden and the figure is saved and returned as an image, or, if
\* fig.savefig raises, closed, and None is returned.
PlotEnd ==
    /\ \/ ppc = "after"
       \/ ppc = "loop" /\ plot_i = Len(plot_call.plot_configurations)
    /\ IF plotted_count = 0
       THEN /\ plot_ret' = "None"
            /\ UNCHANGED axes_flat
       ELSE /\ axes_flat' = HideUnused(axes_flat, plotted_count)
            /\ plot_ret' = IF plot_call.savefig = "raises" THEN "None" ELSE "image"
    /\ ppc' = "done"
    /\ UNCHANGED <<plot_call, df_to_process, plotted_count, plot_i, skipped>>
    /\ UNCHANGED shapeVars
    /\ UNCHANGED codecVars
    /\ UNCHANGED apiVars
    /\ UNCHANGED filterVars
    /\ UNCHANGED registryVars

NextPlot == PlotBegin \/ PlotConfiguration \/ PlotEnd

SpecPlot == InitPlot /\ [][NextPlot]_vars

\* ---------------------------------------------------------------- dataset registry: state machine
\* The keys of the discovered datasets.
DatasetKeys == {"diamonds", "penguins"}

\* What a dataset file holds: a table, or nothing pd.read_csv can read.
DatasetSources ==
    {Unreadable, Readable(SourceTable(1, <<<<IntV(1)>>>>)), Readable(SourceTable(2, <<>>)),
     Readable(NamedTable(<<"price", "carat">>, <<<<IntV(8000), IntV(2)>>>>)),
     Readable(NamedTable(<<"price", "carat">>, <<<<IntV(8000), StrV("E")>>>>)),
     Readable(NamedTable(<<"price", "carat">>, <<<<NaNV, StrV("E")>>>>)),
     Readable(NamedTable(<<"price", "carat">>, <<<<IntV(1), NoneV>>>>))}

\* After the import of the module: the discovered datasets in some order,
\* no active manager.
InitRegistry ==
    /\ ShapeIdle
    /\ CodecIdle
    /\ ApiIdle
    /\ FilterIdle
    /\ PlotIdle
    /\ rheap = <<>>
    /\ \E keys \in SeqsUpTo(DatasetKeys, 2) :
         /\ IsUnique(keys)
         /\ \E src \in [1..Len(keys) -> DatasetSources] :
              AVAILABLE_DATASETS = [i \in 1..Len(keys) |-> [key |-> keys[i], source |-> src[i]]]
    /\ _active_data_manager = NoManager
    /\ _active_dataset_name = NoName
    /\ reg_call = [fn |-> "", key |-> ""]
    /\ reg_ret = [ret |-> FALSE, raised |-> FALSE]
    /\ before = [_active_data_manager |-> NoManager, _active_dataset_name |-> NoName]
    /\ ncalls = 0

\* The effect of a call with outcome r on the state.
RegistryCall(fn, key, r) ==
    /\ ncalls < MaxCalls
    /\ ncalls' = ncalls + 1
    /\ reg_call' = [fn |-> fn, key |-> key]
    /\ before' = [_active_data_manager |-> _active_data_manager, _active_dataset_name |-> _active_dataset_name]
    /\ rheap' = r.heap
    /\ _active_data_manager' = r._active_data_manager
    /\ _active_dataset_name' = r._active_dataset_name
    /\ reg_ret' = [ret |-> r.ret, raised |-> r.raised]
    /\ UNCHANGED AVAILABLE_DATASETS
    /\ UNCHANGED shapeVars
    /\ UNCHANGED codecVars
    /\ UNCHANGED apiVars
    /\ UNCHANGED filterVars
    /\ UNCHANGED plotVars

\* load_dataset for a discovered key or for a key that is not available.
LoadDataset ==
    \E dataset_key \in DatasetKeys \cup {"nosuch"} :
        RegistryCall("load_dataset", dataset_key,
                     load_dataset(rheap, AVAILABLE_DATASETS, _active_data_manager,
                                  _active_dataset_name, dataset_key))

GetActiveDataManager ==
    RegistryCall("get_active_data_manager", "",
                 get_active_data_manager(rheap, AVAILABLE_DATASETS, _active_data_manager,
                                         _active_dataset_name))

NextRegistry == LoadDataset \/ GetActiveDataManager

SpecRegistry == InitRegistry /\ [][NextRegistry]_vars

\* ---------------------------------------------------------------- column shaper: properties
\* The position of a column name in a table with unique column names.
ColPos(cols, name) == CHOOSE p \in 1..Len(cols) : cols[p] = name

\* res has all the rows of t, and each of its cells is the cell of t in the
\* same row and in the column of the same name.
SameRowsOf(res, t) ==
    /\ res.index = t.index
    /\ res.names = t.names
    /\ Len(res.data) = Len(t.data)
    /\ \A r \in 1..Len(res.data) :
          /\ Len(res.data[r]) = Len(res.columns)
          /\ \A j \in 1..Len(res.columns) :
                res.data[r][j] = t.data[r][ColPos(t.columns, res.columns[j])]

\* The table a fresh call on table t returns.
ShapedAlone(t, inc, exc) ==
    LET r == get_shaped_dataframe(<<t>>, 1, inc, exc) IN r.heap[r.ret]

IncludeGiven == include_columns.some /\ include_columns.v # <<>>
ExcludeGiven == exclude_columns.some /\ exclude_columns.v # <<>>
IncludeMatches == \E i \in 1..Len(include_columns.v) : InSeq(include_columns.v[i], input0.columns)
ExcludeMatches == \E i \in 1..Len(exclude_columns.v) : InSeq(exclude_columns.v[i], input0.columns)

\* C1 (as stated): with a non-empty include list naming a column of T, the
\* result has the names common to the list and T, in T's column order, and
\* all of T's rows.
C1_TableOrder ==
    (pc = "shaped" /\ IncludeGiven /\ IncludeMatches) =>
        /\ ~raised
        /\ ret \in 1..Len(heap)
        /\ heap[ret].columns = SelectSeq(input0.columns, LAMBDA c : InSeq(c, include_columns.v))
        /\ SameRowsOf(heap[ret], input0)

\* What get_shaped_dataframe returns instead: the columns of the result are
\* the entries of the include list that are columns of T, in the order of
\* the include list and once per occurrence in it, with all of T's rows.
C1_IncludeOrder ==
    (pc = "shaped" /\ IncludeGiven /\ IncludeMatches) =>
        /\ ~raised
        /\ ret \in 1..Len(heap)
        /\ heap[ret].columns = SelectSeq(include_columns.v, LAMBDA c : \E p \in 1..Len(input0.columns) : input0.columns[p] = c)
        /\ SameRowsOf(heap[ret], input0)

\* The include list ['b', 'a'] on the columns a, b: the result has b first.
C1_Witness ==
    /\ pc = "shaped"
    /\ include_columns = Some(<<"b", "a">>)
    /\ input0.columns = <<"a", "b">>
    /\ input0.data = <<<<IntV(1), StrV("E")>>>>
    /\ heap[ret].columns = <<"b", "a">>
    /\ heap[ret].data = <<<<StrV("E"), IntV(1)>>>>

\* C2: with a non-empty include list and a non-empty exclude list the result
\* is the table the same call returns without the exclude list.
C2_ExcludeIgnored ==
    (pc = "shaped" /\ IncludeGiven /\ ExcludeGiven) =>
        /\ ~raised
        /\ ret \in 1..Len(heap)
        /\ heap[ret] = ShapedAlone(input0, include_columns, None)

C2_Witness ==
    /\ pc = "shaped"
    /\ include_columns = Some(<<"a">>)
    /\ exclude_columns = Some(<<"a">>)
    /\ input0.columns = <<"a", "b">>
    /\ Len(input0.data) = 1
    /\ heap[ret].columns = <<"a">>

\* C3: with a non-empty include list none of whose names is a column of T,
\* the call does not raise and returns a table without rows whose columns
\* are the include list.
C3_EmptyIntersection ==
    (pc = "shaped" /\ IncludeGiven /\ ~IncludeMatches) =>
        /\ ~raised
        /\ ret \in 1..Len(heap)
        /\ heap[ret].columns = include_columns.v
        /\ heap[ret].data = <<>>
        /\ heap[ret].index = <<>>

C3_Witness ==
    /\ pc = "shaped"
    /\ include_columns = Some(<<"c", "b">>)
    /\ input0.columns = <<"a">>
    /\ Len(input0.data) = 1
    /\ heap[ret].columns = <<"c", "b">>
    /\ heap[ret].data = <<>>

\* C4: without an include list, the result's columns are T's columns whose
\* name is not in the exclude list, in T's order, with all of T's rows.
C4_ExcludeOnly ==
    (pc = "shaped" /\ ~include_columns.some /\ exclude_columns.some) =>
        /\ ~raised
        /\ ret \in 1..Len(heap)
        /\ heap[ret].columns = SelectSeq(input0.columns, LAMBDA c : ~\E i \in 1..Len(exclude_columns.v) : exclude_columns.v[i] = c)
        /\ SameRowsOf(heap[ret], input0)

C4_Witness ==
    /\ pc = "shaped"
    /\ ~include_columns.some
    /\ exclude_columns = Some(<<"b", "c">>)
    /\ input0.columns = <<"b", "a">>
    /\ Len(input0.data) = 1
    /\ heap[ret].columns = <<"a">>

\* C5: an empty include list is treated as an absent one: the call with
\* include = [] returns the table the call with include = None returns.
C5_EmptyIncludeAsAbsent ==
    (pc = "shaped" /\ include_columns = Some(<<>>) /\ exclude_columns.some) =>
        /\ ~raised
        /\ ret \in 1..Len(heap)
        /\ heap[ret] = ShapedAlone(input0, None, exclude_columns)

\* C6: without an include list, and with an exclude list that is absent or
\* names no column of T, the result equals T.
C6_ExcludeNoOp ==
    (pc = "shaped" /\ ~include_columns.some /\ (~exclude_columns.some \/ ~ExcludeMatches)) =>
        /\ ~raised
        /\ ret \in 1..Len(heap)
        /\ heap[ret] = input0

C6_Witness ==
    /\ pc = "shaped"
    /\ ~include_columns.some
    /\ exclude_columns = Some(<<"c">>)
    /\ input0.columns = <<"a", "b">>
    /\ Len(input0.data) = 1
    /\ heap[ret] = input0

\* C7: the call leaves its input as it was, and what it returns is another
\* object than its input.
C7_InputUntouched ==
    /\ heap[base_df] = input0
    /\ (pc = "shaped" /\ ~raised) => (ret \in 1..Len(heap) /\ ret # base_df)
    /\ (pc = "reshaped" /\ ~raised) => (ret2 \in 1..Len(heap) /\ ret2 # ret /\ ret2 # base_df)

C7_Witness ==
    /\ pc = "shaped"
    /\ ~include_columns.some
    /\ ~exclude_columns.some
    /\ Len(input0.data) = 1
    /\ ret # base_df
    /\ heap[ret] = input0
    /\ heap[base_df] = input0

\* C8: the call never raises: for every table and every include and exclude
\* list it returns a table.
C8_NeverRaises ==
    /\ ~raised
    /\ pc # "start" => ret \in 1..Len(heap)
    /\ pc = "reshaped" => ret2 \in 1..Len(heap)

C8_Witness ==
    /\ pc = "shaped"
    /\ include_columns = Some(<<"c", "a">>)
    /\ exclude_columns = Some(<<"a", "a">>)
    /\ input0.columns = <<"a", "b">>
    /\ ~raised
    /\ heap[ret].columns = <<"a">>

\* C9: shaping is idempotent: shaping the shaped table with the same
\* include/exclude pair returns a table equal to the shaped table.
C9_Idempotent ==
    pc = "reshaped" =>
        /\ ~raised
        /\ ret2 \in 1..Len(heap)
        /\ heap[ret2] = heap[ret]

\* ---------------------------------------------------------------- codec: properties
Displayed == cpc \in {"dashboard", "new_dashboard"}

\* The dashboard was given the level names of the encoded table.
NamesOfTable == index_level_names = Some(table.names)

\* The displayed table has the columns, the row labels, the level names and
\* the cells of the encoded table, cells compared by their string form.
RoundTrip ==
    /\ shown.kind = "dataframe"
    /\ shown.df.columns = table.columns
    /\ shown.df.index = table.index
    /\ shown.df.names = table.names
    /\ Len(shown.df.data) = Len(table.data)
    /\ \A r \in 1..Len(table.data) :
          /\ Len(shown.df.data[r]) = Len(table.columns)
          /\ \A j \in 1..Len(table.columns) : AsStr(shown.df.data[r][j]) = AsStr(table.data[r][j])

\* C10 (as stated): decoding the split form of any table, with the table's
\* level names, rebuilds its columns, row labels, level names and cells.
C10_RoundTripAll == (Displayed /\ NamesOfTable) => RoundTrip

\* The columns of the table are what pandas infers from the cells the
\* response carries (an object column of numbers beside a missing cell is
\* not, nor is a NaN in a column without a number: it arrives as null and
\* stays None).
Inferred(t) ==
    \A j \in 1..Len(t.columns) :
        InferColumn(ToJson(to_dict_split(t)).data, j) = [r \in 1..Len(t.data) |-> t.data[r][j]]

\* What the decoder does keep: the round trip holds for every table with at
\* least one row whose columns are typed as pandas infers them; for a table
\* without rows the decoder rebuilds the columns and zero rows, under a
\* single unnamed index level.
C10_RoundTripRows ==
    (Displayed /\ NamesOfTable /\ Inferred(table)) =>
        IF table.data # <<>> THEN RoundTrip
        ELSE /\ shown.kind = "dataframe"
             /\ shown.df.columns = table.columns
             /\ shown.df.data = <<>>
             /\ shown.df.index = <<>>
             /\ shown.df.names = <<NoName>>

\* A two-level table with a stringified column makes the round trip.
C10_RoundTripReached ==
    /\ Displayed
    /\ NamesOfTable
    /\ table.names = <<"level1", "level2">>
    /\ table.index = <<<<StrV("E"), IntV(1)>>>>
    /\ table.columns = <<"a", "b">>
    /\ table.data = <<<<IntV(1), StrV("E")>>>>
    /\ categorical_cols = {"a"}
    /\ shown.kind = "dataframe"
    /\ shown.df.index = table.index
    /\ shown.df.names = table.names
    /\ shown.df.data = <<<<StrV("1"), StrV("E")>>>>

\* ---------------------------------------------------------------- decoder: properties
\* A split form is malformed if some data row has another length than
\* "columns", or if "index" and "data" are both non-empty and of different
\* lengths.
RowLengthMismatch(w) == \E r \in 1..Len(w.data) : Len(w.data[r]) # Len(w.columns)
IndexLengthMismatch(w) == w.index # <<>> /\ w.data # <<>> /\ Len(w.index) # Len(w.data)
Malformed(w) == RowLengthMismatch(w) \/ IndexLengthMismatch(w)

\* C11: for every malformed split form the decoder signals an error and
\* displays no table.
C11_MalformedRejected ==
    (Displayed /\ Malformed(wire[1])) => shown.kind = "error"

\* What the decoder does reject: a longest data row of another length than
\* "columns", and, when there is a column, an index of another length than
\* "data".
C11_RejectedByWidth ==
    (Displayed /\ wire[1].data # <<>>) =>
        LET w == Max({Len(wire[1].data[r]) : r \in 1..Len(wire[1].data)})
        IN  (w # Len(wire[1].columns) \/ (w > 0 /\ IndexLengthMismatch(wire[1]))) => shown.kind = "error"

\* The components of the items of a received index: every item is a list,
\* and all the lists have the same length k.
AllListsOfLength(index, k) == \A i \in 1..Len(index) : index[i].list /\ Len(index[i].v) = k

\* The index the decoder builds for the received split form.
BuiltIndex == reconstructed_index(wire[1].index, wire[1].data, index_level_names).idx

\* C12: from a non-empty received index the decoder builds an index of k
\* levels if every item is a list of the same length k > 1, and an index of
\* one level in every other case.
C12_DepthByAllItems ==
    (Displayed /\ wire[1].index # <<>> /\ BuiltIndex.ok) =>
        IF \E k \in 2..MaxLevels : AllListsOfLength(wire[1].index, k)
        THEN AllListsOfLength(wire[1].index, Len(BuiltIndex.names))
        ELSE Len(BuiltIndex.names) = 1

\* What the decoder does: the first item decides.  If it is a list, the
\* index has as many levels as the longest item has components, and one
\* level if every item is an empty list; if it is a scalar, the index has
\* one level.
C12_DepthByFirstItem ==
    (Displayed /\ wire[1].index # <<>> /\ BuiltIndex.ok) =>
        IF wire[1].index[1].list
        THEN Len(BuiltIndex.names) = Max({1} \cup {Len(wire[1].index[i].v) : i \in 1..Len(wire[1].index)})
        ELSE Len(BuiltIndex.names) = 1

\* The received index is well-formed and multi-level of depth k, and the
\* rest of the split form is well-formed too.
WellFormedMulti(k) ==
    /\ k > 1
    /\ AllListsOfLength(wire[1].index, k)
    /\ wire[1].index # <<>>
    /\ ~Malformed(wire[1])
    /\ Len(wire[1].data) = Len(wire[1].index)

\* C13: for a multi-level index of depth k the level names are the entries
\* of index_level_names if it has k entries; if it is absent, empty or of
\* another length the table is displayed all the same, its levels unnamed.
C13_NameCountMismatchTolerated ==
    \A k \in 2..MaxLevels :
        (Displayed /\ WellFormedMulti(k)) =>
            /\ shown.kind = "dataframe"
            /\ shown.df.names = IF index_level_names.some /\ ~IsStrNames(index_level_names)
                                   /\ Len(index_level_names.v) = k
                                THEN index_level_names.v ELSE UnnamedLevels(k)

\* What the decoder does: k names are applied, absent names leave the levels
\* unnamed, and any other number of names (none included), or a str, is an
\* error.
C13_NameCountMismatchIsError ==
    \A k \in 2..MaxLevels :
        (Displayed /\ WellFormedMulti(k)) =>
            IF ~index_level_names.some
            THEN shown.kind = "dataframe" /\ shown.df.names = UnnamedLevels(k)
            ELSE IF ~IsStrNames(index_level_names) /\ Len(index_level_names.v) = k
            THEN shown.kind = "dataframe" /\ shown.df.names = index_level_names.v
            ELSE shown.kind = "error"

\* The received split form is well-formed and the index the decoder builds
\* has one level: scalar labels, or no labels at all.
WellFormedSingle ==
    /\ wire[1].incomplete = ""
    /\ ~Malformed(wire[1])
    /\ Len(wire[1].data) = Len(wire[1].index)
    /\ \A i \in 1..Len(wire[1].index) : ~wire[1].index[i].list

ExactlyOneName ==
    IsStrNames(index_level_names) \/ (index_level_names.some /\ Len(index_level_names.v) = 1)

\* C14: a single-level decoded index is named index_level_names[0] if
\* exactly one name was supplied and is unnamed otherwise.
C14_SingleLevelName ==
    (Displayed /\ WellFormedSingle) =>
        /\ shown.kind = "dataframe"
        /\ shown.df.names = IF ExactlyOneName THEN <<index_level_names.v[Len(index_level_names.v)]>> ELSE <<NoName>>

\* What the decoder does: the rule holds for an index with at least one
\* label; an index without labels is left unnamed whatever was supplied.
C14_SingleLevelNameOfLabels ==
    (Displayed /\ WellFormedSingle) =>
        /\ shown.kind = "dataframe"
        /\ shown.df.names = IF ExactlyOneName /\ wire[1].index # <<>>
                            THEN <<index_level_names.v[Len(index_level_names.v)]>> ELSE <<NoName>>

\* C15: a split form whose "index" and "data" are both empty is displayed,
\* without error, as a table with no rows and with every column of
\* "columns".
C15_EmptyKeepsColumns ==
    (Displayed /\ wire[1].incomplete = "" /\ wire[1].index = <<>> /\ wire[1].data = <<>>) =>
        /\ shown.kind = "dataframe"
        /\ shown.df.columns = wire[1].columns
        /\ shown.df.data = <<>>
        /\ shown.df.index = <<>>

C15_Witness ==
    /\ cpc = "dashboard"
    /\ wire[1].index = <<>>
    /\ wire[1].data = <<>>
    /\ wire[1].columns = <<"a", "b">>
    /\ categorical_cols = {"a"}
    /\ shown.kind = "dataframe"
    /\ shown.df.columns = <<"a", "b">>
    /\ shown.df.data = <<>>

\* Column j of a table, as the sequence of its cells.
ColumnOf(df, j) == [r \in 1..Len(df.data) |-> df.data[r][j]]

\* The values of a column are not all of one primitive type.
Heterogeneous(col) == \E r1, r2 \in 1..Len(col) : col[r1].t # col[r2].t

\* C16: in the displayed table a column of the encoded table is in string
\* form exactly if its values are not uniformly of one primitive type, a
\* uniform column keeps its values, and the encoded table stays as it was.
C16_StringifiedIfHeterogeneous ==
    (Displayed /\ shown.kind = "dataframe") =>
        /\ wire[1] = ToJson(to_dict_split(table))
        /\ \A j \in 1..Len(table.columns) :
              ColumnOf(shown.df, j) =
                  IF Heterogeneous(ColumnOf(table, j))
                  THEN [r \in 1..Len(table.data) |-> AsStr(table.data[r][j])]
                  ELSE ColumnOf(table, j)

\* What the decoders do: a column is in string form exactly if its name is
\* in the dashboard's categorical_cols, whatever its values, and the encoded
\* table stays as it was.  The values are those pandas infers from the cells
\* received (InferColumn), a NaN of the table being received as null.
C16_StringifiedIfCategorical ==
    (Displayed /\ shown.kind = "dataframe") =>
        /\ wire[1] = ToJson(to_dict_split(table))
        /\ \A j \in 1..Len(table.columns) :
              ColumnOf(shown.df, j) =
                  IF table.columns[j] \in categorical_cols
                  THEN [r \in 1..Len(table.data) |-> AsStr(InferColumn(wire[1].data, j)[r])]
                  ELSE InferColumn(wire[1].data, j)

\* ---------------------------------------------------------------- api: properties
\* The include list of request q is given and names no column of table t.
NoMatchInclude(q, t) ==
    /\ Truthy(q.include_columns)
    /\ \A i \in 1..Len(q.include_columns.v) : ~InSeq(q.include_columns.v[i], t.columns)

\* A response without data: no rows, an empty split form, no records, no
\* counts.
NoData(r) ==
    /\ r.status = 200
    /\ r.kind \in {"shape", "info"} => r.shape[1] = 0
    /\ r.kind = "counts" => r.counts[1] = <<>>
    /\ r.kind = "split" => r.split[1].data = <<>>
    /\ r.kind = "records" => r.records = <<>>
    /\ r.kind # "image"

\* The parameters of request q other than include/exclude fit table t: the
\* column asked for is a column of t, the filter conditions are pairs on
\* columns of t, the list of plot configurations is not empty.
FitsTable(q, t) ==
    /\ q.kind \in {"frequency-table", "plots/displot"} => InSeq(q.column_name, t.columns)
    /\ q.hue_col # "" => InSeq(q.hue_col, t.columns)
    /\ Len(q.filter_cols) = Len(q.filter_values)
    /\ \A j \in 1..Len(q.filter_cols) : InSeq(q.filter_cols[j], t.columns)
    /\ q.kind = "plots/dashboard" => q.payload # <<>>
    /\ \A j \in 1..Len(q.index_names \o q.columns_names) :
          InSeq((q.index_names \o q.columns_names)[j], t.columns)

\* C17: a request whose include list matches no column of the table is
\* answered, by every endpoint, with status 200 and an empty result.
C17_NoMatchIsNoData ==
    \A i \in 1..Len(req) :
        (rpc[i] = "done" /\ NoMatchInclude(req[i], loaded0) /\ FitsTable(req[i], loaded0)) =>
            NoData(resp[i])

\* What the endpoints answer to such a request: shape, unique counts, info
\* and filter have no data; the numerical summary answers 400; the
\* categorical summary describes the listed names as columns without
\* values; the frequency table, the cross-tabulation and the displot answer
\* 400 unless the include list names their columns (the cross-tabulation
\* also with normalize and margins); the plots answer 500 when the handler
\* returns None for the empty table.
C17_NoMatchOutcomes ==
    \A i \in 1..Len(req) :
        (rpc[i] = "done" /\ NoMatchInclude(req[i], loaded0)) =>
            LET q == req[i]
                listed(c) == InSeq(c, q.include_columns.v)
            IN  CASE q.kind \in {"shape", "unique-counts", "info"} -> NoData(resp[i])
                  [] q.kind = "numerical-summary" -> resp[i].status = 400
                  [] q.kind = "categorical-summary" ->
                       /\ resp[i].status = 200
                       /\ resp[i].split[1].columns = q.include_columns.v
                       /\ resp[i].split[1].data =
                              [k \in 1..4 |-> [j \in 1..Len(q.include_columns.v) |->
                                                  IF k <= 2 THEN IntV(0) ELSE NaNV]]
                  [] q.kind = "cross-tabs" ->
                       IF \A j \in 1..Len(q.index_names \o q.columns_names) :
                              listed((q.index_names \o q.columns_names)[j])
                       THEN IF q.normalize /\ q.margins THEN resp[i].status = 400 ELSE NoData(resp[i])
                       ELSE resp[i].status = 400
                  [] q.kind = "filter" ->
                       IF /\ Len(q.filter_cols) = Len(q.filter_values)
                          /\ \A j \in 1..Len(q.filter_cols) : InSeq(q.filter_cols[j], loaded0.columns)
                       THEN NoData(resp[i]) ELSE resp[i].status = 400
                  [] q.kind = "frequency-table" ->
                       IF listed(q.column_name) THEN NoData(resp[i]) ELSE resp[i].status = 400
                  [] q.kind = "plots/dashboard" ->
                       resp[i].status = IF q.payload = <<>> THEN 400 ELSE 500
                  [] q.kind = "plots/displot" ->
                       resp[i].status = IF listed(q.column_name) /\ (q.hue_col = "" \/ listed(q.hue_col))
                                        THEN 500 ELSE 400

\* C18: once the manager is loaded, it holds a table, no step (a further
\* load_and_prepare_data, a change of the source, a request to any
\* endpoint) changes the manager or its stored table, the stored table is
\* the table that was loaded, and what get_processed_df hands to a request
\* is another object than the stored one.
C18_StoredTableNeverChanges ==
    [][mgr._is_loaded =>
          /\ mgr._processed_df \in 1..Len(store)
          /\ mgr' = mgr
          /\ store[mgr._processed_df] = loaded0
          /\ store'[mgr._processed_df] = loaded0
          /\ \A i \in 1..Len(req) : rdf'[i] # mgr._processed_df]_vars

\* A loaded manager whose source lost its rows since: the filter request,
\* sent again MaxServed times, is answered from the stored table, which still
\* has its row.
C18_Witness ==
    /\ mgr._is_loaded
    /\ Len(loaded0.data) = 1
    /\ loaded0.columns = <<"a", "b">>
    /\ source = Readable(EmptyFrame(<<"a", "b">>))
    /\ served = MaxServed
    /\ req[1].kind = "filter"
    /\ rpc[1] = "done"
    /\ resp[1].status = 200
    /\ store[mgr._processed_df] = loaded0

\* The response to request q when it is the only request the API ever gets:
\* the dependency copies the loaded table, the endpoint runs on the copy.
AnsweredAlone(q) ==
    LET d == get_processed_df(<<loaded0>>, Manager(1, TRUE))
    IN  Endpoint(d.heap, d.ret, q).resp

\* C19: under every interleaving of the steps of two requests to a loaded
\* API, each answered request has exactly the response it gets when it runs
\* alone, the manager stays loaded, the stored table is the loaded one, and
\* the tables the requests
\* work on are objects of their own: not the stored object, and not the
\* object of the other request.
C19_IndependentRequests ==
    /\ mgr._is_loaded
    /\ mgr._processed_df \in 1..Len(store)
    /\ store[mgr._processed_df] = loaded0
    /\ \A i \in 1..Len(req) :
         /\ rpc[i] = "done" => resp[i] = AnsweredAlone(req[i])
         /\ rpc[i] # "new" =>
              /\ rdf[i] # mgr._processed_df
              /\ store[rdf[i]] = loaded0
              /\ \A j \in 1..Len(req) : (j # i /\ rpc[j] # "new") => rdf[j] # rdf[i]

\* The second request got its table first and is still to be handled, the
\* first request started after it and is already answered: a filter with
\* rows in its answer, overtaking a plot request.
C19_Witness ==
    /\ rpc = <<"done", "ready">>
    /\ rdf[2] < rdf[1]
    /\ req[1].kind = "filter"
    /\ req[2].kind = "plots/dashboard"
    /\ resp[1].status = 200
    /\ resp[1].records # <<>>

\* The conditions of filter request q are pairs on columns of table t.
PairedOnColumnsOf(q, t) ==
    /\ Len(q.filter_cols) = Len(q.filter_values)
    /\ \A j \in 1..Len(q.filter_cols) : InSeq(q.filter_cols[j], t.columns)

\* The rows of t, by position, that meet every condition of q.
MatchingRows(q, t) ==
    SelectSeq([r \in 1..Len(t.data) |-> r],
              LAMBDA r : \A j \in 1..Len(q.filter_cols) :
                             Equals(t.data[r][ColPos(t.columns, q.filter_cols[j])], q.filter_values[j]))

\* The columns of t that shaping t by the lists of q leaves.  (For an include
\* list that names no column of t the shaped table has the listed names as
\* columns: none of them is a column of t.)
ShapedColumnsOf(q, t) ==
    LET cols == ShapedAlone(t, q.include_columns, q.exclude_columns).columns
    IN  {cols[j] : j \in 1..Len(cols)} \cap {t.columns[j] : j \in 1..Len(t.columns)}

\* One record per matching row of t, holding the row's cells in the shaped
\* columns.
MatchingRowsShaped(q, t) ==
    LET rows == MatchingRows(q, t)
    IN  [k \in 1..Len(rows) |->
            [c \in ShapedColumnsOf(q, t) |-> t.data[rows[k]][ColPos(t.columns, c)]]]

\* C20: a filter request with paired conditions on columns of the base table
\* is answered with status 200, whether or not shaping removes a filter
\* column, and its records are exactly the base rows meeting every
\* condition, each restricted to the shaped columns.
C20_MatchingRowsShaped ==
    \A i \in 1..Len(req) :
        (rpc[i] = "done" /\ req[i].kind = "filter" /\ PairedOnColumnsOf(req[i], loaded0)) =>
            /\ resp[i].status = 200
            /\ resp[i].records = MatchingRowsShaped(req[i], loaded0)

\* C20 amended: the same, except that the answer has no record at all when
\* shaping leaves no column of the table (an include list naming no column
\* of the table, or an exclude list naming every column).
C20_MatchingRowsUnlessNoColumn ==
    \A i \in 1..Len(req) :
        (rpc[i] = "done" /\ req[i].kind = "filter" /\ PairedOnColumnsOf(req[i], loaded0)) =>
            /\ resp[i].status = 200
            /\ resp[i].records = IF ShapedColumnsOf(req[i], loaded0) = {} THEN <<>>
                                 ELSE MatchingRowsShaped(req[i], loaded0)

\* The filter column a is removed by the exclude list, the row of the table
\* meets the condition on a, and the answer holds that row's cell of b.
C20_Witness ==
    /\ rpc[1] = "done"
    /\ req[1].kind = "filter"
    /\ req[1].filter_cols = <<"a">>
    /\ req[1].filter_values = <<StrV("E")>>
    /\ req[1].exclude_columns = Some(<<"a">>)
    /\ req[1].include_columns = None
    /\ loaded0.columns = <<"a", "b">>
    /\ loaded0.data = <<<<StrV("E"), IntV(1)>>>>
    /\ resp[1].status = 200
    /\ Len(resp[1].records) = 1
    /\ resp[1].records[1]["b"] = IntV(1)
    /\ DOMAIN resp[1].records[1] = {"b"}

\* ---------------------------------------------------------------- data_filter: properties
\* The arguments of the call, as the conditions of a request.
FilterArguments == [filter_cols |-> filter_col, filter_values |-> filter_value]

\* The table data_filter returned is made of the rows of the table the
\* instance had at the call, or the call raised ValueError.
FilterResult ==
    fpc = "done" =>
        IF PairedOnColumnsOf(FilterArguments, data0)
        THEN LET rows == MatchingRows(FilterArguments, data0)
             IN  /\ fexc = ""
                 /\ fret \notin {0, self_data}
                 /\ dheap[fret].columns = data0.columns
                 /\ dheap[fret].names = data0.names
                 /\ dheap[fret].data = [k \in 1..Len(rows) |-> data0.data[rows[k]]]
                 /\ dheap[fret].index = [k \in 1..Len(rows) |-> data0.index[rows[k]]]
                 /\ (filter_col = <<>> => dheap[fret] = data0)
        ELSE /\ fexc = "ValueError"
             /\ fret = 0

\* C21: the call of data_filter with two lists leaves the instance's data as
\* it was; for lists of one length naming columns of the table the call
\* returns a new table with the table's columns and exactly the rows meeting
\* every condition, in their original order and under their own labels
\* (every row, for two empty lists), a table that later changes of the
\* instance's data do not reach; for lists of different lengths or a name
\* that is no column the call raises ValueError.
C21_FilterRows ==
    /\ []FilterResult
    /\ [][(fpc = "start" /\ fpc' = "done") =>
             /\ self_data' = self_data
             /\ dheap'[self_data] = dheap[self_data]
             /\ data0' = dheap[self_data]]_vars

\* A table of two rows that differ in column b: the conditions a == 'E' and
\* b == 1 keep the second row only, under its label 1.
C21_Witness ==
    /\ fpc = "done"
    /\ data0.columns = <<"a", "b">>
    /\ data0.data = <<<<StrV("E"), StrV("E")>>, <<StrV("E"), IntV(1)>>>>
    /\ filter_col = <<"a", "b">>
    /\ filter_value = <<StrV("E"), IntV(1)>>
    /\ fexc = ""
    /\ dheap[fret].data = <<<<StrV("E"), IntV(1)>>>>
    /\ dheap[fret].index = <<<<IntV(1)>>>>
    /\ dheap[self_data] = data0

\* ---------------------------------------------------------------- dashboard plot: properties
\* The loop, run step by step, returns what handle_generate_dashboard_plot
\* returns for the same arguments.
PlotReturnsAsHandler ==
    ppc = "done" =>
        LET out == handle_generate_dashboard_plot(<<plot_call.base_df>>, 1, plot_call.plot_configurations,
                                                  plot_call.include_columns, plot_call.exclude_columns,
                                                  plot_call.savefig)
        IN  IF plot_ret = "None" THEN out.val = ReturnsNone
            ELSE out.val.kind = "image" /\ out.val.image = <<plotted_count>>

\* The number of configurations of the call.
NumPlots == Len(plot_call.plot_configurations)

\* C22: in the figure that is returned, the hidden axes are exactly the grid
\* cells after the last configuration; no axis that a configuration was
\* drawn into, or that got an error or unknown-type message, is hidden.
C22_HiddenAreUnused ==
    plot_ret = "image" =>
        \A j \in 1..Len(axes_flat) :
            /\ ~axes_flat[j].visible <=> j > NumPlots
            /\ axes_flat[j].mark # "" => axes_flat[j].visible

\* What the code hides, once the counter is not 0: the axes from position
\* plotted_count on, which are the unused cells only when every
\* configuration was counted.
C22_HiddenFromCount ==
    (ppc = "done" /\ plotted_count > 0) =>
        /\ \A j \in 1..Len(axes_flat) : ~axes_flat[j].visible <=> j > plotted_count
        /\ plotted_count = NumPlots =>
              \A j \in 1..Len(axes_flat) : axes_flat[j].mark # "" => axes_flat[j].visible

\* The marks the configurations before index i get, in list order.
MarksUpTo(i) == [j \in 1..i |-> MarkOf(plot_call.plot_configurations[j], df_to_process)]

\* C23: during and after the loop the configurations handled so far are the
\* first plot_i of the list, each has put its mark on the axis of its own
\* position and on no other (an unknown type, a missing column and a raising
\* plot method mark that axis as unknown or error), the axes of the later
\* positions are untouched, and the loop ends only when every configuration
\* has been handled.
C23_EveryConfigurationAttempted ==
    /\ ppc \in {"loop", "after"} \/ (ppc = "done" /\ axes_flat # <<>>) =>
          /\ plot_i <= NumPlots
          /\ plot_i <= Len(axes_flat)
          /\ \A j \in 1..plot_i : axes_flat[j].mark = MarksUpTo(plot_i)[j]
          /\ \A j \in (plot_i + 1)..Len(axes_flat) : axes_flat[j].mark = ""
    /\ (ppc = "done" /\ axes_flat # <<>>) => plot_i = NumPlots /\ ~skipped

\* Three configurations, the first of an unknown type, the second with a
\* missing column, the third drawn on the third axis; the fourth cell of the
\* grid is unused.
C23_Witness ==
    /\ ppc = "done"
    /\ NumPlots = 3
    /\ plot_call.plot_configurations[1].type = "pie"
    /\ plot_call.plot_configurations[2].col_name = "c"
    /\ plot_call.base_df.columns = <<"a">>
    /\ plot_call.include_columns = None
    /\ Len(axes_flat) = 4
    /\ axes_flat[1].mark = "unknown"
    /\ axes_flat[2].mark = "error"
    /\ axes_flat[3].mark = "plot"
    /\ axes_flat[4].mark = ""
    /\ plot_i = 3

\* A plot was drawn into some axis of the figure.
SomePlotDrawn == \E j \in 1..Len(axes_flat) : axes_flat[j].mark = "plot"

\* C24: the handler returns an image if and only if the plot of at least one
\* configuration was drawn, and None otherwise.
C24_ImageIffDrawn ==
    ppc = "done" =>
        /\ plot_ret \in {"image", "None"}
        /\ plot_ret = "image" <=> SomePlotDrawn

\* What the code returns: an image if and only if some plot method returned
\* without an exception, whether or not it drew, and fig.savefig saved the
\* figure.
C24_ImageIffCounted ==
    ppc = "done" =>
        /\ plot_ret \in {"image", "None"}
        /\ plot_ret = "image" <=>
              /\ \E j \in 1..Len(axes_flat) : axes_flat[j].mark \in {"plot", "returned"}
              /\ plot_call.savefig = "saves"

\* C25: the figure of a call with n >= 1 configurations has
\* ceil(n / ceil(sqrt(n))) rows of ceil(sqrt(n)) axes, which is at least n
\* axes; the 'not enough axes' branch is never taken, and when the handler
\* returns every configuration has been handled.
C25_GridHasRoom ==
    axes_flat # <<>> =>
        /\ NumPlots >= 1
        /\ Len(axes_flat) = GridOf(NumPlots).nrows * GridOf(NumPlots).ncols
        /\ GridOf(NumPlots).ncols * GridOf(NumPlots).ncols >= NumPlots
        /\ Len(axes_flat) >= NumPlots
        /\ ~skipped
        /\ ppc # "after"
        /\ ppc = "done" => plot_i = NumPlots

\* Five configurations on a grid of two rows of three axes: all five were
\* handled, the sixth axis is left over.
C25_Witness ==
    /\ ppc = "done"
    /\ NumPlots = 5
    /\ Len(axes_flat) = 6
    /\ plot_i = 5
    /\ axes_flat[5].mark = "plot"
    /\ axes_flat[6].mark = ""

\* ---------------------------------------------------------------- dataset registry: properties
\* C26: whatever load_dataset calls came before, get_active_data_manager
\* does not raise and returns a manager, never None: the active one, loaded
\* and holding a table, so that get_processed_df on it does not raise.
C26_ActiveManagerIsLoaded ==
    reg_call.fn = "get_active_data_manager" =>
        /\ ~reg_ret.raised
        /\ reg_ret.ret # NoManager
        /\ reg_ret.ret = _active_data_manager
        /\ reg_ret.ret.m._is_loaded
        /\ reg_ret.ret.m._processed_df # 0
        /\ ~get_processed_df(rheap, reg_ret.ret.m).raised

\* A dataset was active, loading another one failed and left no active
\* manager, and the default dataset cannot be read either:
\* get_active_data_manager returns the empty manager of last resort.
C26_Witness ==
    /\ reg_call.fn = "get_active_data_manager"
    /\ ncalls = 3
    /\ before._active_data_manager = NoManager
    /\ \E i \in 1..Len(AVAILABLE_DATASETS) : AVAILABLE_DATASETS[i].source.ok
    /\ ~SourceOf(AVAILABLE_DATASETS, DefaultKey(AVAILABLE_DATASETS)).ok
    /\ reg_ret.ret.source_name = "empty_fallback"
    /\ reg_ret.ret.m._is_loaded
    /\ rheap[reg_ret.ret.m._processed_df] = EmptyFrame(<<>>)

\* C27: in every state the active name is None exactly when the active
\* manager is None, and otherwise it is the active manager's source_name.
C27_NameFollowsManager ==
    /\ _active_dataset_name = NoName <=> _active_data_manager = NoManager
    /\ _active_data_manager # NoManager => _active_dataset_name = _active_data_manager.source_name

\* After a dataset was active, a failed load has reset both variables.
C27_Witness ==
    /\ reg_call.fn = "load_dataset"
    /\ ~reg_ret.ret
    /\ before._active_data_manager # NoManager
    /\ before._active_dataset_name = before._active_data_manager.source_name
    /\ _active_data_manager = NoManager
    /\ _active_dataset_name = NoName

\* The load of a new manager from this source raises: the file cannot be
\* read, or the post-processing of its table raises.
LoadRaises(src) == load_and_prepare_data(<<>>, Manager(0, FALSE), src).raised

\* C28: a load_dataset with a key that is not available returns False and
\* leaves the active manager and name as they were; with an available key
\* whose load raises (in reading the file or in the post-processing) it
\* returns False and leaves both None, whatever was active before.
C28_FailedLoad ==
    reg_call.fn = "load_dataset" =>
        /\ reg_call.key \notin KeysOf(AVAILABLE_DATASETS) =>
              /\ reg_ret.ret = FALSE
              /\ _active_data_manager = before._active_data_manager
              /\ _active_dataset_name = before._active_dataset_name
        /\ (reg_call.key \in KeysOf(AVAILABLE_DATASETS)
               /\ LoadRaises(SourceOf(AVAILABLE_DATASETS, reg_call.key))) =>
              /\ reg_ret.ret = FALSE
              /\ _active_data_manager = NoManager
              /\ _active_dataset_name = NoName
        /\ ~reg_ret.raised

\* The penguins dataset was loaded and active; load_dataset("diamonds"),
\* whose file is read and whose post-processing raises for the carat 'E',
\* made both variables None.
C28_Witness ==
    /\ reg_call = [fn |-> "load_dataset", key |-> "diamonds"]
    /\ "diamonds" \in KeysOf(AVAILABLE_DATASETS)
    /\ SourceOf(AVAILABLE_DATASETS, "diamonds") =
          Readable(NamedTable(<<"price", "carat">>, <<<<IntV(8000), StrV("E")>>>>))
    /\ reg_ret.ret = FALSE
    /\ before._active_dataset_name = "penguins"
    /\ before._active_data_manager.m._is_loaded
    /\ _active_data_manager = NoManager
    /\ _active_dataset_name = NoName

====
